---- MODULE Spec2Model ----
(***************************************************************************)
(* The paper-trading ledger of src/paper_trading.py (PaperTradingSystem)   *)
(* with the arbitrage calculator of src/api.py that feeds it.              *)
(*                                                                         *)
(* Numbers.  The source computes in floats; the model computes in fixed    *)
(* point.  A price, an effective price, a total cost or an edge is an      *)
(* integer number of 1/1000 cent (raw prices are whole cents, the fee and  *)
(* slippage factors have three decimals, so every product is exact).  A    *)
(* dollar amount is an integer number of 1/100000 dollar, so               *)
(* (totalCost / 100) * quantity is totalCost * quantity.  A ROI percentage *)
(* is an integer number of 1/10000 percent (the four decimals the          *)
(* calculator rounds to).                                                  *)
(*                                                                         *)
(* Dicts.  A Python dict is a function on the set of its keys, so a key    *)
(* that is absent differs from a key whose value is None.                  *)
(***************************************************************************)
EXTENDS Integers, Sequences, FiniteSets, TLC

VARIABLES
    data,   \* PaperTradingSystem.data: [balance, initial_balance, bets]
    disk,   \* the content of DATA_FILE as save_data last wrote it
    call,   \* the most recent call on the ledger: what execute_arb returned, or
            \* what the status callback answered during update_settlements
    env,    \* the settings of the process: the fee table of src/api.py and
            \* the PAPER_TRADING_* variables of os.environ
    threads \* the calls in flight on the scheduler's and the server's threads:
            \* for each, its position and its locals

vars == <<data, disk, call, env, threads>>

-----------------------------------------------------------------------------
(* Bounds of the model *)

\* Longest bet list explored (the source's list is unbounded)
MaxBets == 2

\* The settings of PAPER_TRADING_INITIAL_BALANCE explored, in dollars: one
\* that pays for one trade and one that pays for two
InitialBalances == {150, 200}

-----------------------------------------------------------------------------
(* Fixed point *)

Cent == 10 * 10 * 10        \* one cent, in price units
Usd == 100 * Cent           \* one dollar, in money units

\* Python's None among strings, and among numbers (no price or ROI of the
\* model is negative, so the value is free)
None == "<None>"
NoneNum == 0 - 1

\* The empty dict; a dict-valued None is modelled by it as well (the source
\* tests such values only with "not d")
EmptyDict == <<>>

Has(d, k) == k \in DOMAIN d
Get(d, k) == IF Has(d, k) THEN d[k] ELSE None
GetNum(d, k) == IF Has(d, k) THEN d[k] ELSE NoneNum
GetOr(d, k, default) == IF Has(d, k) THEN d[k] ELSE default
GetDict(d, k) == IF Has(d, k) THEN d[k] ELSE EmptyDict
With(d, k, v) == (k :> v) @@ d
Without(d, K) == [k \in DOMAIN d \ K |-> d[k]]

\* "not s" for a string or None
NotStr(s) == s = None \/ s = ""
\* "not d" for a dict or None
NotDict(d) == DOMAIN d = {}
\* "a or b" on strings
OrStr(a, b) == IF NotStr(a) THEN b ELSE a

\* str(x) for a string or None
Str(x) == IF x = None THEN "None" ELSE x

\* n / d rounded to the nearest integer, for n >= 0 and d > 0
RoundDiv(n, d) == (2 * n + d) \div (2 * d)

-----------------------------------------------------------------------------
(* src/api.py: fee table and _calculate_risk_free_details *)

\* The settings as the source ships them: the rates of src/api.py in
\* thousandths, the stake in contracts, the minimum ROI in 1/10000 percent.
\* The ledger's own copies of the rates (POLY_FEE, KALSHI_FEE and
\* SLIPPAGE_ESTIMATE of execute_arb) have the same values, and the ledger is
\* explored under these rates only.
DefaultEnv ==
    [ POLYMARKET_FEE |-> 20, KALSHI_FEE |-> 70, SLIPPAGE_ESTIMATE |-> 5,
      PAPER_TRADING_BET_AMOUNT |-> 100, PAPER_TRADING_MIN_ROI |-> 0,
      PAPER_TRADING_ENABLED |-> "false" ]

\* Rates in thousandths
POLYMARKET_FEE == env.POLYMARKET_FEE
KALSHI_FEE == env.KALSHI_FEE
SLIPPAGE_ESTIMATE == env.SLIPPAGE_ESTIMATE

\* A leg cost that leaves the slippage allowance out
EffectiveWithoutSlippage(price, fee) == (price * (1000 + fee)) \div 1000

\* price * (1 + fee + slippage), for a price in 1/1000 cent that is whole cents
Effective(price, fee) == (price * (1000 + fee + SLIPPAGE_ESTIMATE)) \div 1000

\* A ROI taken on the payout of 100 cents instead of the cost
RoiPercentOfPayout(net, total) == net * 10

\* round(net / total * 100, 4) in 1/10000 percent, for net >= 0 and total > 0;
\* the division is staged so that no intermediate passes 2^31
RoiPercent(net, total) ==
    LET q == (net * 1000) \div total
        r == (net * 1000) % total
    IN  q * 1000 + RoundDiv(r * 1000, total)

\* A price lookup that knows the key of the side alone
ExtractSideOnly(game, side) == IF NotDict(game) THEN NoneNum ELSE GetNum(game, side)

\* _extract_price_value: the first candidate key that holds a number
_extract_price_value(game, side) ==
    IF NotDict(game) THEN NoneNum
    ELSE LET candidates == << side \o "_raw_price", "raw_" \o side,
                              side \o "_raw", side \o "_prob", side >>
             hits == { i \in 1..Len(candidates) : GetNum(game, candidates[i]) # NoneNum }
         IN  IF hits = {} THEN NoneNum
             ELSE GetNum(game, candidates[CHOOSE i \in hits : \A j \in hits : i <= j])

\* _calculate_risk_free_details: EmptyDict stands for the returned None
_calculate_risk_free_details(poly_game, kalshi_game) ==
    LET poly_away == _extract_price_value(poly_game, "away")
        poly_home == _extract_price_value(poly_game, "home")
        kalshi_away == _extract_price_value(kalshi_game, "away")
        kalshi_home == _extract_price_value(kalshi_game, "home")
        poly_away_eff == Effective(poly_away, POLYMARKET_FEE)
        poly_home_eff == Effective(poly_home, POLYMARKET_FEE)
        kalshi_away_eff == Effective(kalshi_away, KALSHI_FEE)
        kalshi_home_eff == Effective(kalshi_home, KALSHI_FEE)
        strategy1_cost == poly_away_eff + kalshi_home_eff
        strategy2_cost == kalshi_away_eff + poly_home_eff
        first == strategy1_cost <= strategy2_cost
        away_leg == IF first
                    THEN [platform |-> "Polymarket", price |-> poly_away, effective |-> poly_away_eff]
                    ELSE [platform |-> "Kalshi", price |-> kalshi_away, effective |-> kalshi_away_eff]
        home_leg == IF first
                    THEN [platform |-> "Kalshi", price |-> kalshi_home, effective |-> kalshi_home_eff]
                    ELSE [platform |-> "Polymarket", price |-> poly_home, effective |-> poly_home_eff]
        total_cost == IF first THEN strategy1_cost ELSE strategy2_cost
        gross_cost == IF first THEN poly_away + kalshi_home ELSE kalshi_away + poly_home
        gross_edge == 100 * Cent - gross_cost
        net_edge == 100 * Cent - total_cost
    IN  IF NoneNum \in {poly_away, poly_home, kalshi_away, kalshi_home} THEN EmptyDict
        ELSE IF poly_away <= 0 \/ poly_home <= 0 \/ kalshi_away <= 0 \/ kalshi_home <= 0
        THEN EmptyDict
        ELSE IF away_leg.platform = home_leg.platform THEN EmptyDict
        ELSE IF total_cost <= 0 THEN EmptyDict
        ELSE IF net_edge <= 0 THEN EmptyDict     \* roi = net_edge / total_cost <= 0
        ELSE [ best_away_platform |-> away_leg.platform,
               best_home_platform |-> home_leg.platform,
               best_away_price |-> away_leg.price,
               best_home_price |-> home_leg.price,
               best_away_effective |-> away_leg.effective,
               best_home_effective |-> home_leg.effective,
               gross_cost |-> gross_cost,
               gross_edge |-> gross_edge,
               total_cost |-> total_cost,
               net_edge |-> net_edge,
               roi_percent |-> RoiPercent(net_edge, total_cost) ]

\* _format_risk_free_details: the camelCase copy.  roi is kept in millionths,
\* so roi_percent / 100 and roi * 100 keep the integer
_format_risk_free_details(details) ==
    IF NotDict(details) THEN EmptyDict
    ELSE IF Has(details, "bestAwayEffective") /\ Has(details, "bestAwayFrom")
    THEN LET roi_percent == GetNum(details, "roiPercent")
             roi == GetNum(details, "roi")
         IN  IF roi_percent = NoneNum /\ roi # NoneNum THEN With(details, "roiPercent", roi)
             ELSE IF roi_percent # NoneNum /\ roi = NoneNum THEN With(details, "roi", roi_percent)
             ELSE details
    ELSE [ bestAwayFrom |-> Get(details, "best_away_platform"),
           bestHomeFrom |-> Get(details, "best_home_platform"),
           bestAwayPrice |-> GetNum(details, "best_away_price"),
           bestHomePrice |-> GetNum(details, "best_home_price"),
           bestAwayEffective |-> GetNum(details, "best_away_effective"),
           bestHomeEffective |-> GetNum(details, "best_home_effective"),
           totalCost |-> GetNum(details, "total_cost"),
           edge |-> GetNum(details, "net_edge"),
           grossCost |-> GetNum(details, "gross_cost"),
           grossEdge |-> GetNum(details, "gross_edge"),
           roiPercent |-> GetNum(details, "roi_percent"),
           roi |-> GetNum(details, "roi_percent") ]

-----------------------------------------------------------------------------
(* The feed: the platform records and the game records handed to execute_arb *)

Events == {1, 2}

AwayCode(e) == IF e = 1 THEN "LAL" ELSE "NYK"
HomeCode(e) == IF e = 1 THEN "BOS" ELSE "MIA"
AwayTeam(e) == IF e = 1 THEN "Lakers" ELSE "Knicks"
HomeTeam(e) == IF e = 1 THEN "Celtics" ELSE "Heat"
PolyMarketId(e) == IF e = 1 THEN "pm1" ELSE "pm2"
\* The Kalshi market of the side the cheaper strategy of the event buys there
KalshiTicker(e) == IF e = 1 THEN "kx1" ELSE "kx2"
KalshiUrl(e) == << "https://kalshi.com", "/markets/", KalshiTicker(e) >>
PolyUrl(e) == << "https://polymarket.com", "/event/", PolyMarketId(e) >>

\* Raw prices <<Polymarket away, Polymarket home, Kalshi away, Kalshi home>> in
\* cents.  Event 1 is the scenario of the documentation (Strategy 1 costs
\* 99.55), event 2 its mirror image (Strategy 2 costs 97.85).
ArbPrices(e) == IF e = 1 THEN <<30, 68, 34, 64>> ELSE <<34, 64, 30, 68>>
NoArbPrices == <<40, 62, 40, 62>>
ZeroPrices == <<0, 68, 34, 64>>

PolyRecord(e, p) ==
    [ away_team |-> AwayTeam(e), home_team |-> HomeTeam(e),
      away_code |-> AwayCode(e), home_code |-> HomeCode(e),
      away_prob |-> p[1] * Cent, home_prob |-> p[2] * Cent,
      away_raw_price |-> p[1] * Cent, home_raw_price |-> p[2] * Cent,
      url |-> PolyUrl(e), market_id |-> PolyMarketId(e) ]

KalshiRecord(e, p) ==
    [ away_team |-> AwayTeam(e), home_team |-> HomeTeam(e),
      away_code |-> AwayCode(e), home_code |-> HomeCode(e),
      away_prob |-> p[3] * Cent, home_prob |-> p[4] * Cent,
      away_raw_price |-> p[3] * Cent, home_raw_price |-> p[4] * Cent,
      url |-> KalshiUrl(e),
      away_ticker |-> IF e = 1 THEN "kx1a" ELSE KalshiTicker(e),
      home_ticker |-> IF e = 1 THEN KalshiTicker(e) ELSE "kx2h" ]

\* The homepage_game record that fetch_all_sports_data builds for a matched pair
HomepageGame(poly, kalshi) ==
    LET arb_details == _calculate_risk_free_details(poly, kalshi)
    IN  [ away_team |-> poly.away_team, home_team |-> poly.home_team,
          away_code |-> poly.away_code, home_code |-> poly.home_code,
          polymarket |->
            [ away |-> poly.away_prob, home |-> poly.home_prob,
              raw_away |-> GetOr(poly, "away_raw_price", poly.away_prob),
              raw_home |-> GetOr(poly, "home_raw_price", poly.home_prob),
              url |-> GetOr(poly, "url", <<>>),
              market_id |-> Get(poly, "market_id"),
              away_market_id |-> Get(poly, "away_market_id"),
              home_market_id |-> Get(poly, "home_market_id") ],
          kalshi |->
            [ away |-> kalshi.away_prob, home |-> kalshi.home_prob,
              raw_away |-> GetOr(kalshi, "away_raw_price", kalshi.away_prob),
              raw_home |-> GetOr(kalshi, "home_raw_price", kalshi.home_prob),
              url |-> GetOr(kalshi, "url", <<>>),
              away_ticker |-> Get(kalshi, "away_ticker"),
              home_ticker |-> Get(kalshi, "home_ticker") ],
          risk_free_arb |-> arb_details,
          riskFreeArb |-> _format_risk_free_details(arb_details) ]

Game(e, p) == HomepageGame(PolyRecord(e, p), KalshiRecord(e, p))

\* A game record with its pre-computed opportunity replaced
WithArb(g, camel, snake) == With(With(g, "riskFreeArb", camel), "risk_free_arb", snake)

\* The shapes in which a usable opportunity of a game can arrive
ArbShapes(g) ==
    IF NotDict(g.riskFreeArb) THEN {g}
    ELSE { g,
           WithArb(g, EmptyDict, g.risk_free_arb),             \* snake_case only
           Without(g, {"riskFreeArb", "risk_free_arb"}) }      \* none

\* The shapes of an opportunity that is partly filled, worthless or invalid
BadArbShapes(g) ==
    LET camel == g.riskFreeArb
        snake == g.risk_free_arb
    IN  IF NotDict(camel) THEN {g}
        ELSE { WithArb(g, Without(camel, {"totalCost"}), EmptyDict),
               WithArb(g, With(camel, "edge", 0), EmptyDict),
               WithArb(g, With(camel, "bestAwayPrice", 0), EmptyDict),
               WithArb(g, With(camel, "roiPercent", 0), EmptyDict),
               WithArb(g, Without(camel, {"roiPercent", "roi"}), EmptyDict),
               WithArb(g, EmptyDict, Without(snake, {"roi_percent"})),
               WithArb(g, Without(camel, {"bestHomeFrom"}), EmptyDict),
               WithArb(g, With(camel, "bestHomeFrom", camel.bestAwayFrom), EmptyDict),
               WithArb(g, With(camel, "bestAwayFrom", "Manifold"), EmptyDict) }

\* The shapes in which the rest of a game record can arrive
DataShapes(e, g) ==
    IF e = 1
    THEN { g,
           With(g, "polymarket", With(g.polymarket, "market_id", None)),
           Without(g, {"away_team", "home_team"}),
           With(g, "kalshi", EmptyDict),
           With(g, "polymarket", Without(g.polymarket, {"raw_away", "away"})) }
    ELSE { g,
           With(g, "kalshi", With(With(g.kalshi, "away_ticker", None), "home_ticker", None)),
           Without(g, {"away_code", "home_code"}) }

\* The game records execute_arb is called with.  Both events come with a
\* usable opportunity in every shape and with every shape of the rest of the
\* record; the unusable opportunities and prices are those of event 1.
Games ==
    UNION { ArbShapes(Game(e, ArbPrices(e))) : e \in Events }
    \cup UNION { DataShapes(e, Game(e, ArbPrices(e))) : e \in Events }
    \cup UNION { DataShapes(e, Without(Game(e, ArbPrices(e)), {"riskFreeArb", "risk_free_arb"})) :
                 e \in Events }
    \cup BadArbShapes(Game(1, ArbPrices(1)))
    \cup { Game(1, p) : p \in {NoArbPrices, ZeroPrices} }

-----------------------------------------------------------------------------
(* src/paper_trading.py: PaperTradingSystem.execute_arb *)

\* A minimum ROI that is the shipped one, whatever the environment says
MinRoiOfDefaults == DefaultEnv.PAPER_TRADING_MIN_ROI

\* The environment's settings
PAPER_TRADING_BET_AMOUNT == env.PAPER_TRADING_BET_AMOUNT    \* contracts per trade
PAPER_TRADING_MIN_ROI == env.PAPER_TRADING_MIN_ROI          \* in 1/10000 percent

\* _normalize_risk_details: EmptyDict stands for the returned None
_normalize_risk_details(details) ==
    IF NotDict(details) THEN EmptyDict
    ELSE IF Has(details, "bestAwayFrom") /\ Has(details, "bestAwayEffective")
    \* roi is kept in 1/1000000, so that roi_percent / 100 and roi * 100 keep
    \* the integer
    THEN LET n1 == IF GetNum(details, "roiPercent") # NoneNum /\ GetNum(details, "roi") = NoneNum
                   THEN With(details, "roi", details.roiPercent)
                   ELSE details
         IN  IF GetNum(n1, "roi") # NoneNum /\ GetNum(n1, "roiPercent") = NoneNum
             THEN With(n1, "roiPercent", n1.roi)
             ELSE n1
    ELSE IF Has(details, "best_away_platform")
    THEN [ bestAwayFrom |-> Get(details, "best_away_platform"),
           bestHomeFrom |-> Get(details, "best_home_platform"),
           bestAwayPrice |-> GetNum(details, "best_away_price"),
           bestHomePrice |-> GetNum(details, "best_home_price"),
           bestAwayEffective |-> GetNum(details, "best_away_effective"),
           bestHomeEffective |-> GetNum(details, "best_home_effective"),
           totalCost |-> GetNum(details, "total_cost"),
           edge |-> GetNum(details, "net_edge"),
           grossCost |-> GetNum(details, "gross_cost"),
           grossEdge |-> GetNum(details, "gross_edge"),
           roiPercent |-> GetNum(details, "roi_percent"),
           roi |-> GetNum(details, "roi_percent") ]
    ELSE EmptyDict

required_keys ==
    {"bestAwayPrice", "bestHomePrice", "bestAwayEffective", "bestHomeEffective", "totalCost", "edge"}

\* The opportunity execute_arb works with: the normalized one, dropped when a
\* required key is None
RiskDetail(game) ==
    LET given == IF ~NotDict(GetDict(game, "riskFreeArb")) THEN game.riskFreeArb
                 ELSE GetDict(game, "risk_free_arb")
        risk_detail == _normalize_risk_details(given)
    IN  IF ~NotDict(risk_detail) /\ \E k \in required_keys : GetNum(risk_detail, k) = NoneNum
        THEN EmptyDict
        ELSE risk_detail

\* f"{away_code}@{home_code}"
GameId(game) == Str(Get(game, "away_code")) \o "@" \o Str(Get(game, "home_code"))

\* A duplicate check that looks for locked bets only
AlreadyTradedLockedOnly(bets, game_id) ==
    \E i \in DOMAIN bets : bets[i].id = game_id /\ bets[i].status = "locked"

\* The duplicate check: some bet of this id is pending (or locked)
AlreadyTraded(bets, game_id) ==
    \E i \in DOMAIN bets : bets[i].id = game_id /\ bets[i].status \in {"pending", "locked"}

\* A balance check that only refuses an empty balance
InsufficientBalanceAtZero(total_cost_usd, balance) == balance <= 0

\* The balance check
InsufficientBalance(total_cost_usd, balance) == total_cost_usd > balance

\* Lines 216-217 and 409-410: the trade is appended and its cost debited
PlaceTrade(d, trade) ==
    [d EXCEPT !.bets = Append(@, trade), !.balance = @ - trade.cost]

\* How a call ends, (True, trade), (False, reason) or an exception, with the
\* ledger d as the call leaves it
Accept(trade, d) == [raised |-> "", ok |-> TRUE, reason |-> "", trade |-> trade, d |-> d]
Reject(reason, d) == [raised |-> "", ok |-> FALSE, reason |-> reason, trade |-> EmptyDict, d |-> d]
Raise(exception, d) == [raised |-> exception, ok |-> FALSE, reason |-> "", trade |-> EmptyDict, d |-> d]

DUPLICATE == "Market already traded (duplicate trade prevention)"

\* The market id of a leg: the Polymarket market or the Kalshi ticker of its side
LegMarketId(platform, poly, kalshi, side) ==
    IF platform = "Polymarket"
    THEN OrStr(Get(poly, side \o "_market_id"), Get(poly, "market_id"))
    ELSE Get(kalshi, side \o "_ticker")

LegUrl(platform, poly, kalshi) ==
    IF platform = "Polymarket" THEN GetOr(poly, "url", <<>>) ELSE GetOr(kalshi, "url", <<>>)

Leg(platform, price, eff, team, code, market_id, url) ==
    [ platform |-> platform, price |-> price, eff |-> eff, team |-> team,
      code |-> code, market_id |-> market_id, url |-> url ]

Trade(game_id, legs, quantity, total_cost_usd, profit_usd, roi_percent, total_cost_per_unit) ==
    [ id |-> game_id, legs |-> legs, quantity |-> quantity,
      cost |-> total_cost_usd, payout |-> quantity * Usd, profit |-> profit_usd,
      roi_percent |-> roi_percent, status |-> "pending",
      settled_amount |-> 0, realized_profit |-> 0,
      total_cost_per_unit |-> total_cost_per_unit ]

\* An end of the pre-computed path that books the trade before it validates
\* the platforms of the legs
PlaceThenValidate(risk_detail, d, trade) ==
    LET away_platform == Get(risk_detail, "bestAwayFrom")
        home_platform == Get(risk_detail, "bestHomeFrom")
        placed == [d EXCEPT !.bets = Append(@, trade), !.balance = @ - trade.cost]
    IN  IF trade.cost > d.balance
        THEN [raised |-> "", ok |-> FALSE, reason |-> "Insufficient balance",
              trade |-> EmptyDict, d |-> d]
        ELSE IF \E i \in DOMAIN d.bets :
                   d.bets[i].id = trade.id /\ d.bets[i].status \in {"pending", "locked"}
        THEN [raised |-> "", ok |-> FALSE, reason |-> DUPLICATE, trade |-> EmptyDict, d |-> d]
        ELSE IF ~Has(risk_detail, "bestAwayFrom") \/ ~Has(risk_detail, "bestHomeFrom")
        THEN [raised |-> "KeyError", ok |-> FALSE, reason |-> "", trade |-> EmptyDict, d |-> d]
        ELSE IF away_platform = home_platform
        THEN [raised |-> "", ok |-> FALSE,
              reason |-> "Invalid arbitrage: Both legs on same platform",
              trade |-> EmptyDict, d |-> placed]
        ELSE IF away_platform \notin {"Polymarket", "Kalshi"}
                \/ home_platform \notin {"Polymarket", "Kalshi"}
        THEN [raised |-> "", ok |-> FALSE,
              reason |-> "Invalid arbitrage: Unknown platforms detected",
              trade |-> EmptyDict, d |-> placed]
        ELSE [raised |-> "", ok |-> TRUE, reason |-> "", trade |-> trade, d |-> placed]

\* An end of the pre-computed path that does not compare the platforms of the
\* two legs
PrecomputedCommitAnyPlatforms(risk_detail, d, trade) ==
    LET away_platform == Get(risk_detail, "bestAwayFrom")
        home_platform == Get(risk_detail, "bestHomeFrom")
    IN  IF trade.cost > d.balance
        THEN [raised |-> "", ok |-> FALSE, reason |-> "Insufficient balance",
              trade |-> EmptyDict, d |-> d]
        ELSE IF \E i \in DOMAIN d.bets :
                   d.bets[i].id = trade.id /\ d.bets[i].status \in {"pending", "locked"}
        THEN [raised |-> "", ok |-> FALSE, reason |-> DUPLICATE, trade |-> EmptyDict, d |-> d]
        ELSE IF ~Has(risk_detail, "bestAwayFrom") \/ ~Has(risk_detail, "bestHomeFrom")
        THEN [raised |-> "KeyError", ok |-> FALSE, reason |-> "", trade |-> EmptyDict, d |-> d]
        ELSE IF away_platform \notin {"Polymarket", "Kalshi"}
                \/ home_platform \notin {"Polymarket", "Kalshi"}
        THEN [raised |-> "", ok |-> FALSE,
              reason |-> "Invalid arbitrage: Unknown platforms detected",
              trade |-> EmptyDict, d |-> d]
        ELSE [raised |-> "", ok |-> TRUE, reason |-> "", trade |-> trade,
              d |-> [d EXCEPT !.bets = Append(@, trade), !.balance = @ - trade.cost]]

\* Lines 137-219: the end of the pre-computed path, from the balance check on
PrecomputedCommit(risk_detail, d, trade) ==
    LET away_platform == Get(risk_detail, "bestAwayFrom")
        home_platform == Get(risk_detail, "bestHomeFrom")
    IN  IF InsufficientBalance(trade.cost, d.balance)
        THEN Reject("Insufficient balance", d)
        ELSE IF AlreadyTraded(d.bets, trade.id)
        THEN Reject(DUPLICATE, d)
        ELSE IF ~Has(risk_detail, "bestAwayFrom") \/ ~Has(risk_detail, "bestHomeFrom")
        THEN Raise("KeyError", d)                     \* risk_detail['bestHomeFrom']
        ELSE IF away_platform = home_platform
        THEN Reject("Invalid arbitrage: Both legs on same platform", d)
        ELSE IF away_platform \notin {"Polymarket", "Kalshi"}
                \/ home_platform \notin {"Polymarket", "Kalshi"}
        THEN Reject("Invalid arbitrage: Unknown platforms detected", d)
        ELSE Accept(trade, PlaceTrade(d, trade))

\* Lines 112-219: the path of a pre-computed opportunity with a positive edge
ExecutePrecomputed(game, risk_detail, d) ==
    LET poly == GetDict(game, "polymarket")
        kalshi == GetDict(game, "kalshi")
        quantity == PAPER_TRADING_BET_AMOUNT
        total_cost_usd == risk_detail.totalCost * quantity
        profit_usd == risk_detail.edge * quantity
        roi_percent == GetOr(risk_detail, "roiPercent", 0)
        away_platform == Get(risk_detail, "bestAwayFrom")
        home_platform == Get(risk_detail, "bestHomeFrom")
        best_away == Leg(away_platform, risk_detail.bestAwayPrice, risk_detail.bestAwayEffective,
                         GetOr(game, "away_team", "Away"), Get(game, "away_code"),
                         LegMarketId(away_platform, poly, kalshi, "away"),
                         LegUrl(away_platform, poly, kalshi))
        best_home == Leg(home_platform, risk_detail.bestHomePrice, risk_detail.bestHomeEffective,
                         GetOr(game, "home_team", "Home"), Get(game, "home_code"),
                         LegMarketId(home_platform, poly, kalshi, "home"),
                         LegUrl(home_platform, poly, kalshi))
    IN  IF NotDict(poly) \/ NotDict(kalshi)
           \/ GetNum(poly, "away") = NoneNum \/ GetNum(poly, "home") = NoneNum
        THEN Reject("Missing platform data", d)
        ELSE IF roi_percent = NoneNum
        THEN Raise("TypeError", d)                    \* None <= min_roi
        ELSE IF roi_percent <= PAPER_TRADING_MIN_ROI
        THEN Reject("ROI below threshold", d)
        ELSE PrecomputedCommit(risk_detail, d,
                 Trade(GameId(game), <<best_away, best_home>>, quantity, total_cost_usd,
                       profit_usd, roi_percent, risk_detail.totalCost))

\* Lines 365-413: the end of the legacy path, from the balance check on
FallbackCommit(game, d, trade) ==
    IF InsufficientBalance(trade.cost, d.balance)
    THEN Reject("Insufficient balance", d)
    ELSE IF AlreadyTraded(d.bets, trade.id)
    THEN Reject(DUPLICATE, d)
    ELSE IF ~Has(game, "away_team") \/ ~Has(game, "home_team")
    THEN Raise("KeyError", d)                         \* game['away_team']
    ELSE Accept(trade, PlaceTrade(d, trade))

\* Lines 221-413: the legacy calculation, taken when there is no usable
\* pre-computed opportunity
ExecuteFallback(game, d) ==
    LET poly == GetDict(game, "polymarket")
        kalshi == GetDict(game, "kalshi")
        poly_away == GetOr(poly, "raw_away", GetNum(poly, "away"))
        poly_home == GetOr(poly, "raw_home", GetNum(poly, "home"))
        kalshi_away == GetOr(kalshi, "raw_away", GetNum(kalshi, "away"))
        kalshi_home == GetOr(kalshi, "raw_home", GetNum(kalshi, "home"))
        poly_away_eff == Effective(poly_away, POLYMARKET_FEE)
        poly_home_eff == Effective(poly_home, POLYMARKET_FEE)
        kalshi_away_eff == Effective(kalshi_away, KALSHI_FEE)
        kalshi_home_eff == Effective(kalshi_home, KALSHI_FEE)
        strategy1_cost == poly_away_eff + kalshi_home_eff
        strategy2_cost == kalshi_away_eff + poly_home_eff
        first == strategy1_cost <= strategy2_cost
        away_platform == IF first THEN "Polymarket" ELSE "Kalshi"
        home_platform == IF first THEN "Kalshi" ELSE "Polymarket"
        best_away == Leg(away_platform,
                         IF first THEN poly_away ELSE kalshi_away,
                         IF first THEN poly_away_eff ELSE kalshi_away_eff,
                         GetOr(game, "away_team", "Away"), Get(game, "away_code"),
                         LegMarketId(away_platform, poly, kalshi, "away"),
                         LegUrl(away_platform, poly, kalshi))
        best_home == Leg(home_platform,
                         IF first THEN kalshi_home ELSE poly_home,
                         IF first THEN kalshi_home_eff ELSE poly_home_eff,
                         GetOr(game, "home_team", "Home"), Get(game, "home_code"),
                         LegMarketId(home_platform, poly, kalshi, "home"),
                         LegUrl(home_platform, poly, kalshi))
        total_cost_per_unit == IF first THEN strategy1_cost ELSE strategy2_cost
        target_units == PAPER_TRADING_BET_AMOUNT
        \* the liquidity discount: units *= 1 - 0.01 above 200 units
        quantity == IF target_units > 200 THEN (target_units * 99) \div 100 ELSE target_units
        profit_cents == 100 * Cent - total_cost_per_unit
        total_cost_usd == total_cost_per_unit * quantity
        profit_usd == profit_cents * quantity
        roi_percent == IF total_cost_usd > 0
                       THEN RoiPercent(profit_cents, total_cost_per_unit) ELSE 0
        roi_threshold == IF PAPER_TRADING_MIN_ROI > 0 THEN PAPER_TRADING_MIN_ROI ELSE 0
    IN  IF NotDict(poly) \/ NotDict(kalshi)
        THEN Reject("Missing platform data for arbitrage", d)
        ELSE IF NoneNum \in {poly_away, poly_home, kalshi_away, kalshi_home}
        THEN Reject("Missing odds", d)
        ELSE IF NotStr(Get(game, "away_code")) \/ NotStr(Get(game, "home_code"))
        THEN Reject("Missing team codes", d)
        ELSE IF poly_away <= 0 \/ poly_home <= 0 \/ kalshi_away <= 0 \/ kalshi_home <= 0
        THEN Reject("Invalid odds (zero price)", d)
        ELSE IF away_platform = home_platform
        THEN Reject("Invalid arbitrage: Both legs on same platform", d)
        ELSE IF total_cost_per_unit >= 100 * Cent
        THEN Reject("No risk-free arb opportunity (total cost >= 100c)", d)
        ELSE IF roi_percent <= roi_threshold
        THEN Reject("ROI below threshold", d)
        ELSE FallbackCommit(game, d,
                 Trade(GameId(game), <<best_away, best_home>>, quantity, total_cost_usd,
                       profit_usd, roi_percent, total_cost_per_unit))

\* execute_arb on ledger d: how the call ends
execute_arb(game, d) ==
    LET risk_detail == RiskDetail(game)
    IN  IF ~NotDict(risk_detail)
           /\ (risk_detail.bestAwayPrice <= 0 \/ risk_detail.bestHomePrice <= 0)
        THEN Reject("Invalid odds (zero price detected in pre-calculated arb)", d)
        ELSE IF ~NotDict(risk_detail) /\ risk_detail.edge > 0
        THEN ExecutePrecomputed(game, risk_detail, d)
        ELSE ExecuteFallback(game, d)

-----------------------------------------------------------------------------
(* src/paper_trading.py: PaperTradingSystem.update_settlements *)

\* A URL is the sequence of its pieces, with "/markets/", "?" and "#" pieces
\* of their own.  Join is the string the pieces spell.
RECURSIVE Join(_)
Join(pieces) == IF pieces = <<>> THEN "" ELSE Head(pieces) \o Join(Tail(pieces))

Contains(pieces, sep) == \E i \in DOMAIN pieces : pieces[i] = sep

\* The place of the first piece equal to sep, Len(pieces) + 1 if there is none
First(pieces, sep) ==
    IF Contains(pieces, sep)
    THEN CHOOSE i \in DOMAIN pieces :
             pieces[i] = sep /\ \A j \in 1..(i - 1) : pieces[j] # sep
    ELSE Len(pieces) + 1

\* s.split(sep)[0]: the pieces before the first piece equal to sep
Before(pieces, sep) == SubSeq(pieces, 1, First(pieces, sep) - 1)

\* What follows the first sep: s.split(sep)[1] up to the next sep
After(pieces, sep) == SubSeq(pieces, First(pieces, sep) + 1, Len(pieces))

\* url.split('/markets/')[1].split('?')[0].split('#')[0], one split at a time
TickerFromUrl(url) ==
    CHOOSE ticker \in
        { Join(Before(c, "#")) :
            c \in { Before(b, "?") :
                b \in { Before(a, "/markets/") : a \in {After(url, "/markets/")} } } } : TRUE

\* Lines 445-460: the market id of a leg, recovered from a Kalshi URL when missing
RecoveredMarketId(leg) ==
    IF NotStr(leg.market_id) /\ leg.platform = "Kalshi" /\ leg.url # <<>>
       /\ Contains(leg.url, "/markets/")
    THEN TickerFromUrl(leg.url)
    ELSE leg.market_id

\* What the status callback answers for a market it does not know
Unresolved == [resolved |-> FALSE]

\* check_status_func(platform, market_id)
CheckStatus(check_status_func, platform, market_id) ==
    IF <<platform, market_id>> \in DOMAIN check_status_func
    THEN check_status_func[<<platform, market_id>>]
    ELSE Unresolved

\* Lines 466-468: an answer the pass cannot read.  The callback raised, or
\* returned None and status.get raises
Faults(status) == Has(status, "fault")

\* A match on the team code alone
LegWonByCode(winner, leg) == Str(winner) = Str(leg.code)

\* Line 480: the reported winner is the leg's code or its team label
LegWon(winner, leg) == Str(winner) = Str(leg.code) \/ Str(winner) = Str(leg.team)

\* Lines 444-482: the loop over the legs of one pending bet, from leg k on.
\* st = [legs, all_legs_resolved, total_payout, resolved_legs_count, changed,
\* asked, raised]; asked is the set of markets the callback has been called
\* with, raised whether an exception has left the loop
RECURSIVE LegLoop(_, _, _, _)

\* Lines 445-482: the body of the loop for leg k, and the legs after it
LegStep(bet, check_status_func, k, st) ==
    IF k > Len(st.legs) THEN st
    ELSE LET leg == st.legs[k]
             market_id == RecoveredMarketId(leg)
             recovered == market_id # leg.market_id \/
                          (NotStr(leg.market_id) /\ leg.platform = "Kalshi" /\ leg.url # <<>>
                           /\ Contains(leg.url, "/markets/"))
             st1 == IF recovered
                    THEN [st EXCEPT !.legs[k].market_id = market_id, !.changed = TRUE]
                    ELSE st
             status == CheckStatus(check_status_func, leg.platform, market_id)
         IN  IF NotStr(market_id)
             THEN LegLoop(bet, check_status_func, k + 1, st1)          \* continue
             ELSE IF Faults(status)
             THEN [st1 EXCEPT !.raised = TRUE,                         \* raise
                              !.asked = @ \cup {<<leg.platform, market_id>>}]
             ELSE IF ~status.resolved
             THEN [st1 EXCEPT !.all_legs_resolved = FALSE,             \* break
                              !.asked = @ \cup {<<leg.platform, market_id>>}]
             ELSE LegLoop(bet, check_status_func, k + 1,
                          [st1 EXCEPT !.resolved_legs_count = @ + 1,
                                      !.asked = @ \cup {<<leg.platform, market_id>>},
                                      !.total_payout = @ + IF LegWon(Get(status, "winner"), leg)
                                                           THEN bet.quantity * Usd ELSE 0])

\* The loop takes the state of the loop as a value, computed once
LegLoop(bet, check_status_func, k, st) ==
    CHOOSE after \in { LegStep(bet, check_status_func, k, s) : s \in {st} } : TRUE

\* A settlement condition that only asks that no leg answered unresolved
SettlesUnlessUnresolved(st, bet) == st.all_legs_resolved

\* Line 484: the bet settles in this pass
Settles(st, bet) == st.all_legs_resolved /\ st.resolved_legs_count = Len(bet.legs)

\* A settlement that pays a bet at most its expected payout
SettledBetSinglePayout(bet, legs, total_payout) ==
    LET paid == IF total_payout > bet.payout THEN bet.payout ELSE total_payout
    IN  [bet EXCEPT !.legs = legs, !.status = "settled", !.settled_amount = paid,
                    !.realized_profit = paid - bet.cost, !.profit = paid - bet.cost]

\* Lines 486-490: a settled bet and the credit it brings
SettledBet(bet, legs, total_payout) ==
    [bet EXCEPT !.legs = legs, !.status = "settled", !.settled_amount = total_payout,
                !.realized_profit = total_payout - bet.cost,
                !.profit = total_payout - bet.cost]

\* A settlement that credits the expected payout of the bet
AfterBetCreditsExpected(d, i, st) ==
    IF Settles(st, d.bets[i])
    THEN [d EXCEPT !.bets[i] = SettledBet(@, st.legs, st.total_payout),
                   !.balance = @ + d.bets[i].payout]
    ELSE [d EXCEPT !.bets[i].legs = st.legs]

\* Lines 439-491: one pending bet, given the outcome st of the loop over its
\* legs: the ledger d after it
AfterBet(d, i, st) ==
    IF Settles(st, d.bets[i])
    THEN [d EXCEPT !.bets[i] = SettledBet(@, st.legs, st.total_payout),
                   !.balance = @ + st.total_payout]
    ELSE [d EXCEPT !.bets[i].legs = st.legs]

\* A pass that looks at every bet, whatever its status
IsAnyBet(bet) == bet.status \in {"pending", "settled"}

\* Line 438: only a pending bet is looked at
IsPending(bet) == bet.status = "pending"

\* Lines 437-491: the loop over the bets, from bet i on.
\* acc = [d, changed, asked, raised]: the ledger so far, whether it has to be
\* saved, the markets the callback has been called with, and whether an
\* exception has left the loop (lines 494-495 are then not reached)
RECURSIVE BetLoop(_, _, _)

\* Lines 438-491: the body of the loop for bet i, and the bets after it
BetStep(acc, check_status_func, i) ==
    IF i > Len(acc.d.bets) THEN acc
    ELSE IF ~IsPending(acc.d.bets[i])
    THEN BetLoop(acc, check_status_func, i + 1)
    ELSE LET bet == acc.d.bets[i]
             start == [legs |-> bet.legs, all_legs_resolved |-> TRUE, total_payout |-> 0,
                       resolved_legs_count |-> 0, changed |-> FALSE, asked |-> acc.asked,
                       raised |-> FALSE]
         IN  CHOOSE after \in
                 { IF st.raised
                   THEN [d |-> [acc.d EXCEPT !.bets[i].legs = st.legs],
                         changed |-> acc.changed \/ st.changed,
                         asked |-> st.asked, raised |-> TRUE]
                   ELSE BetLoop([d |-> AfterBet(acc.d, i, st),
                                 changed |-> acc.changed \/ st.changed \/ Settles(st, bet),
                                 asked |-> st.asked, raised |-> FALSE],
                                check_status_func, i + 1) :
                   st \in {LegLoop(bet, check_status_func, 1, start)} } : TRUE

\* The loop takes the ledger so far as a value, computed once
BetLoop(acc, check_status_func, i) ==
    CHOOSE after \in { BetStep(a, check_status_func, i) : a \in {acc} } : TRUE

update_settlements(d, check_status_func) ==
    BetLoop([d |-> d, changed |-> FALSE, asked |-> {}, raised |-> FALSE], check_status_func, 1)

\* The callbacks of the explored passes: for each market, unresolved or
\* resolved with a winner.  Polymarket names the winning outcome (a team
\* label), Kalshi the team code of the ticker.
MarketRefs ==
    { <<"Polymarket", PolyMarketId(e)>> : e \in Events }
    \cup { <<"Kalshi", KalshiTicker(e)>> : e \in Events }

EventOf(ref) == CHOOSE e \in Events : ref[2] \in {PolyMarketId(e), KalshiTicker(e)}

\* What a platform answers for a market that is still open, or was won by
\* the away side, or by the home side
Answer(ref, outcome) ==
    IF outcome = "open" THEN Unresolved
    ELSE [ resolved |-> TRUE,
           winner |-> IF ref[1] = "Polymarket"
                      THEN (IF outcome = "home" THEN HomeTeam(EventOf(ref))
                                                ELSE AwayTeam(EventOf(ref)))
                      ELSE (IF outcome = "home" THEN HomeCode(EventOf(ref))
                                                ELSE AwayCode(EventOf(ref))) ]

StatusFuncs ==
    { [r \in MarketRefs |-> Answer(r, outcome[r])] :
        outcome \in [MarketRefs -> {"open", "away", "home"}] }

-----------------------------------------------------------------------------
(* The ledger as a state machine *)

\* No call is in flight: every call of the specification runs to its end
\* before the next one starts
NoThreads == <<>>

\* reset_data, as load_data runs it when there is no data file
Init ==
    /\ \E initial_balance \in InitialBalances :
          data = [ balance |-> initial_balance * Usd,
                   initial_balance |-> initial_balance * Usd,
                   bets |-> <<>> ]
    /\ disk = data
    /\ call = [op |-> "load_data"]
    /\ env = DefaultEnv
    /\ threads = NoThreads

\* execute_arb(game), with the save_data of a placed trade
ExecuteArb(game) ==
    \E ret \in {execute_arb(game, data)} :
        /\ ret.ok => Len(data.bets) < MaxBets
        /\ data' = ret.d
        /\ disk' = IF ret.ok THEN ret.d ELSE disk
        /\ call' = [op |-> "execute_arb", id |-> GameId(game), raised |-> ret.raised,
                    ok |-> ret.ok, reason |-> ret.reason]
        /\ UNCHANGED <<env, threads>>

\* update_settlements(check_status_func), with its save_data
UpdateSettlements(check_status_func) ==
    \E done \in {update_settlements(data, check_status_func)} :
        /\ data' = done.d
        /\ disk' = IF done.changed /\ ~done.raised THEN done.d ELSE disk
        /\ call' = [op |-> "update_settlements",
                    answers |-> [r \in done.asked |-> CheckStatus(check_status_func, r[1], r[2])]]
        /\ UNCHANGED <<env, threads>>

\* The markets a pass can ask about: those of the legs of the pending bets
OpenRefs ==
    { <<data.bets[i].legs[k].platform, RecoveredMarketId(data.bets[i].legs[k])>> :
        i \in { j \in DOMAIN data.bets : data.bets[j].status = "pending" }, k \in 1..2 }

\* A pass never asks about another market, so of the callbacks that differ
\* only there one is explored: the one that reports them unresolved
Relevant(check_status_func, open) ==
    \A r \in MarketRefs : check_status_func[r].resolved => r \in open

Next ==
    \/ \E game \in Games : ExecuteArb(game)
    \/ \E open \in {OpenRefs} :
          \E check_status_func \in StatusFuncs :
              Relevant(check_status_func, open) /\ UpdateSettlements(check_status_func)

Spec == Init /\ [][Next]_vars

\* The callbacks that report every market resolved, with one winner or the
\* other
ResolvedFuncs ==
    { [r \in MarketRefs |-> Answer(r, outcome[r])] :
        outcome \in [MarketRefs -> {"away", "home"}] }

\* check_paper_trading_settlements as the scheduler runs it every minute,
\* once every market of the feed has been resolved on its platform
SettlementPass == \E check_status_func \in ResolvedFuncs : UpdateSettlements(check_status_func)

LiveNext ==
    \/ \E game \in Games : ExecuteArb(game)
    \/ SettlementPass

\* The scheduler keeps the passes running
LiveSpec == Init /\ [][LiveNext]_vars /\ WF_vars(SettlementPass)

-----------------------------------------------------------------------------
(* Properties of the ledger *)

\* The bets of a list that are pending
PendingIn(bets) == { i \in DOMAIN bets : bets[i].status = "pending" }

\* Some bet of the list is pending under this id
HasPending(bets, id) == \E i \in PendingIn(bets) : bets[i].id = id

RECURSIVE TotalCost(_)
TotalCost(bets) ==
    IF bets = <<>> THEN 0 ELSE Head(bets).cost + TotalCost(Tail(bets))

RECURSIVE TotalSettled(_)
TotalSettled(bets) ==
    IF bets = <<>> THEN 0
    ELSE (IF Head(bets).status = "settled" THEN Head(bets).settled_amount ELSE 0)
         + TotalSettled(Tail(bets))

NoTwoPendingShareId ==
    \A i, j \in PendingIn(data.bets) : data.bets[i].id = data.bets[j].id => i = j

\* The reasons of the checks execute_arb makes before the duplicate check
ReasonsBeforeDuplicate ==
    { "Invalid odds (zero price detected in pre-calculated arb)", "Missing platform data",
      "ROI below threshold", "Insufficient balance", "Missing platform data for arbitrage",
      "Missing odds", "Missing team codes", "Invalid odds (zero price)",
      "No risk-free arb opportunity (total cost >= 100c)" }

\* An execute_arb for a key that has a pending bet adds nothing, and is
\* rejected as a duplicate unless an earlier check rejects it first
DuplicateNotPlaced ==
    (call'.op = "execute_arb" /\ HasPending(data.bets, call'.id)) =>
        /\ ~call'.ok
        /\ data' = data
        /\ call'.raised # "KeyError"
        /\ (call'.raised = "" /\ call'.reason \notin ReasonsBeforeDuplicate)
              => call'.reason = DUPLICATE

C2_BalanceIdentity ==
    data.balance = data.initial_balance - TotalCost(data.bets) + TotalSettled(data.bets)

\* C2 witness: a settled bet that paid out next to a bet still pending
C2_Witness ==
    /\ \E i \in DOMAIN data.bets :
          data.bets[i].status = "settled" /\ data.bets[i].settled_amount > 0
    /\ PendingIn(data.bets) # {}

\* An accepted trade costs no more than the balance it is paid from, and an
\* attempt rejected for its cost changes nothing
CostWithinBalance ==
    call'.op = "execute_arb" =>
        /\ call'.ok => /\ Len(data'.bets) = Len(data.bets) + 1
                       /\ data'.bets[Len(data'.bets)].cost <= data.balance
                       /\ data'.balance = data.balance - data'.bets[Len(data'.bets)].cost
        /\ call'.reason = "Insufficient balance" => data' = data

NewlySettled ==
    { i \in PendingIn(data.bets) : data'.bets[i].status = "settled" }

\* No bet is removed, a settled bet is left as it is, a status only goes from
\* pending to settled, and a pass credits the balance with the amounts of the
\* bets it settles and nothing more
SettledIsFinal ==
    /\ Len(data'.bets) >= Len(data.bets)
    /\ \A i \in DOMAIN data.bets :
          /\ data.bets[i].status = "settled" => data'.bets[i] = data.bets[i]
          /\ data'.bets[i].status \in {data.bets[i].status, "settled"}
    /\ call'.op = "update_settlements" =>
          /\ Len(data'.bets) = Len(data.bets)
          /\ data'.balance - data.balance
                = TotalSettled(data'.bets) - TotalSettled(data.bets)
          /\ \A i \in DOMAIN data.bets :
                i \notin NewlySettled => data'.bets[i].status = data.bets[i].status

\* C4: a bet's status changes only from pending to settled; a settled bet is
\* not evaluated again: a later pass, whatever the lookup answers, changes
\* neither its settled_amount nor its realized_profit and does not credit the
\* balance for it again.
C4_SettledOnce == [][SettledIsFinal]_vars

\* C4 witness: two bets on the same markets settled by passes that were given
\* different answers: the first kept its amount when the second pass ran
C4_Witness ==
    /\ call.op = "update_settlements"
    /\ Len(data.bets) = 2
    /\ data.bets[1].status = "settled" /\ data.bets[2].status = "settled"
    /\ data.bets[1].id = data.bets[2].id
    /\ data.bets[1].settled_amount # data.bets[2].settled_amount

\* The market a pass asks about for a leg
RefOf(leg) == <<leg.platform, RecoveredMarketId(leg)>>

\* The lookup of this step answered resolved for the leg
AnsweredResolved(leg) ==
    RefOf(leg) \in DOMAIN call'.answers /\ call'.answers[RefOf(leg)].resolved

\* The lookup of this step answered unresolved for the leg
AnsweredUnresolved(leg) ==
    RefOf(leg) \in DOMAIN call'.answers /\ ~call'.answers[RefOf(leg)].resolved

\* A pass settles a bet only if every leg was looked up and answered resolved;
\* a bet with a leg answered unresolved stays pending with nothing credited
AllLegsResolved ==
    call'.op = "update_settlements" =>
        /\ \A i \in NewlySettled :
              \A k \in DOMAIN data.bets[i].legs : AnsweredResolved(data.bets[i].legs[k])
        /\ \A i \in PendingIn(data.bets) :
              (\E k \in DOMAIN data.bets[i].legs : AnsweredUnresolved(data.bets[i].legs[k]))
                 => /\ data'.bets[i].status = "pending"
                    /\ data'.bets[i].settled_amount = data.bets[i].settled_amount
                    /\ data'.bets[i].realized_profit = data.bets[i].realized_profit
        /\ data'.balance - data.balance
              = TotalSettled(data'.bets) - TotalSettled(data.bets)

\* C5: update_settlements settles a pending bet only in a pass whose lookup
\* reports resolved for every one of its legs; when a leg reports unresolved
\* the bet stays pending, its settled_amount and realized_profit are left
\* alone and the balance is not credited for it.
C5_NoPartialSettlement == [][AllLegsResolved]_vars

\* C5 witness: a pass found the first leg resolved and won, the second
\* unresolved, and the bet is pending with nothing settled
C5_Witness ==
    /\ call.op = "update_settlements"
    /\ \E i \in PendingIn(data.bets) :
          LET away == RefOf(data.bets[i].legs[1])
              home == RefOf(data.bets[i].legs[2])
          IN  /\ away \in DOMAIN call.answers /\ home \in DOMAIN call.answers
              /\ call.answers[away].resolved
              /\ call.answers[away].winner \in {data.bets[i].legs[1].code, data.bets[i].legs[1].team}
              /\ ~call.answers[home].resolved
              /\ data.bets[i].settled_amount = 0
              /\ data.balance = data.initial_balance - TotalCost(data.bets)

\* The legs of a bet whose winner, as the lookup of this step answered it,
\* is the leg's code or its team label
WinningLegs(bet) ==
    { k \in DOMAIN bet.legs :
        /\ AnsweredResolved(bet.legs[k])
        /\ call'.answers[RefOf(bet.legs[k])].winner \in {bet.legs[k].code, bet.legs[k].team} }

\* A bet that settles gets quantity x 1.0 for each winning leg
PaidPerWinningLeg ==
    call'.op = "update_settlements" =>
        /\ \A i \in NewlySettled :
              LET bet == data.bets[i]
                  settled == data'.bets[i]
              IN  /\ settled.settled_amount
                        = Cardinality(WinningLegs(bet)) * bet.quantity * Usd
                  /\ settled.realized_profit = settled.settled_amount - bet.cost
                  /\ WinningLegs(bet) = {} =>
                        settled.settled_amount = 0 /\ settled.realized_profit = 0 - bet.cost
        /\ data'.balance - data.balance
              = TotalSettled(data'.bets) - TotalSettled(data.bets)

\* C6 as stated: when the passes keep running and the lookup reports resolved
\* for every leg, a pending bet is eventually settled.
C6_EventuallySettled ==
    \A i \in 1..MaxBets :
        (i \in DOMAIN data.bets /\ data.bets[i].status = "pending")
            ~> (i \in DOMAIN data.bets /\ data.bets[i].status = "settled")

\* The part of C6 that holds: a pending bet whose legs both name a market
\* (directly or through the URL of a Kalshi leg) is eventually settled
IdentifiedBetsSettle ==
    \A i \in 1..MaxBets :
        (/\ i \in DOMAIN data.bets
         /\ data.bets[i].status = "pending"
         /\ \A k \in DOMAIN data.bets[i].legs : ~NotStr(RecoveredMarketId(data.bets[i].legs[k])))
            ~> (i \in DOMAIN data.bets /\ data.bets[i].status = "settled")

\* C7: when a bet settles, settled_amount is quantity x 1.0 for each leg whose
\* reported winner equals the leg's code or team label and nothing for the
\* other legs, realized_profit = settled_amount - cost, the balance is
\* credited by settled_amount; with no winning leg settled_amount is 0 and
\* realized_profit = -cost.
C7_PayoutPerWinningLeg == [][PaidPerWinningLeg]_vars

\* C7 witness: the only bet of the ledger settled in the last pass with one
\* winning leg and one losing leg, and made its profit
C7_Witness ==
    /\ call.op = "update_settlements"
    /\ Len(data.bets) = 1
    /\ data.bets[1].status = "settled"
    /\ LET legs == data.bets[1].legs
       IN  /\ \A k \in DOMAIN legs : <<legs[k].platform, legs[k].market_id>> \in DOMAIN call.answers
           /\ call.answers[<<legs[1].platform, legs[1].market_id>>].winner = legs[1].team
           /\ call.answers[<<legs[2].platform, legs[2].market_id>>].winner # legs[2].code
    /\ data.bets[1].settled_amount = data.bets[1].quantity * Usd
    /\ data.bets[1].realized_profit = data.bets[1].quantity * Usd - data.bets[1].cost
    /\ data.bets[1].realized_profit > 0

\* A bet that settles with both legs reported as winners is paid twice over
BothLegsPaid ==
    call'.op = "update_settlements" =>
        \A i \in NewlySettled :
            WinningLegs(data.bets[i]) = {1, 2} =>
                /\ data'.bets[i].settled_amount = 2 * data.bets[i].quantity * Usd
                /\ data'.bets[i].realized_profit
                      = data'.bets[i].settled_amount - data.bets[i].cost

\* C8 (as it holds): in a settlement where the lookup of the away leg reports
\* a winner matching the away leg and the lookup of the home leg a winner
\* matching the home leg, each leg pays quantity x 1.0: the payout is
\* 2 x quantity x 1.0 and realized_profit = payout - cost.
C8_BothLegsPay == [][BothLegsPaid]_vars

\* C8 witness: a bet was settled at twice its quantity
C8_Witness ==
    /\ call.op = "update_settlements"
    /\ \E i \in DOMAIN data.bets :
          /\ data.bets[i].status = "settled"
          /\ data.bets[i].settled_amount = 2 * data.bets[i].quantity * Usd
          /\ data.bets[i].realized_profit = data.bets[i].settled_amount - data.bets[i].cost

\* C8 as stated: with the away leg's winner matching the away leg's code and
\* the home leg's winner matching the home leg, the payout is quantity x 1.0
\* and realized_profit = payout - cost.
C8_AsStated ==
    [][call'.op = "update_settlements" =>
          \A i \in NewlySettled :
              LET bet == data.bets[i]
              IN  ( /\ AnsweredResolved(bet.legs[1])
                    /\ call'.answers[RefOf(bet.legs[1])].winner = bet.legs[1].code
                    /\ 2 \in WinningLegs(bet) )
                  => /\ data'.bets[i].settled_amount = bet.quantity * Usd
                     /\ data'.bets[i].realized_profit = bet.quantity * Usd - bet.cost]_vars

\* C9: an execute_arb that returns (False, reason) leaves the balance and the
\* list of bets as they were (and nothing is saved): a rejected attempt
\* creates no bet and debits nothing.
C9_RejectChangesNothing ==
    [][(call'.op = "execute_arb" /\ ~call'.ok /\ call'.raised = "")
          => (data'.balance = data.balance /\ data'.bets = data.bets
              /\ data' = data /\ disk' = disk)]_vars

\* C9 witness: with a bet on the ledger, an attempt that passed the balance
\* and duplicate checks was rejected for the platforms of its legs
C9_Witness ==
    /\ call.op = "execute_arb"
    /\ ~call.ok
    /\ call.reason = "Invalid arbitrage: Both legs on same platform"
    /\ Len(data.bets) = 1
    /\ data.bets[1].id # call.id
    /\ data.balance = data.initial_balance - data.bets[1].cost

\* C10 as stated: execute_arb returns (True, trade) or (False, reason) for
\* every game record and never raises.
C10_NeverRaises == call.op = "execute_arb" => call.raised = ""

-----------------------------------------------------------------------------
(* src/api.py: the event key of fetch_all_sports_data, and the listings of *)
(* one event                                                               *)

UpperCase == << "A", "B", "C", "D", "E", "F", "G", "H", "I", "J", "K", "L", "M",
                "N", "O", "P", "Q", "R", "S", "T", "U", "V", "W", "X", "Y", "Z" >>
LowerCase == << "a", "b", "c", "d", "e", "f", "g", "h", "i", "j", "k", "l", "m",
                "n", "o", "p", "q", "r", "s", "t", "u", "v", "w", "x", "y", "z" >>

\* The characters of the codes and labels a listing can carry
Spelling(s) ==
    CASE s = "LAL" -> << "L", "A", "L" >>
      [] s = "BOS" -> << "B", "O", "S" >>
      [] s = "lal" -> << "l", "a", "l" >>
      [] s = "bos" -> << "b", "o", "s" >>
      [] s = "LA-L" -> << "L", "A", "-", "L" >>
      [] s = "B OS" -> << "B", " ", "O", "S" >>
      [] s = "NYK" -> << "N", "Y", "K" >>
      [] s = "MIA" -> << "M", "I", "A" >>
      [] s = "None" -> << "N", "o", "n", "e" >>
      [] s = "Lakers" -> << "L", "a", "k", "e", "r", "s" >>
      [] s = "Celtics" -> << "C", "e", "l", "t", "i", "c", "s" >>
      [] s = "Knicks" -> << "K", "n", "i", "c", "k", "s" >>
      [] s = "Heat" -> << "H", "e", "a", "t" >>
      [] s = "Nets" -> << "N", "e", "t", "s" >>
      [] s = "Bulls" -> << "B", "u", "l", "l", "s" >>
      [] s = "LA Lakers" -> << "L", "A", " ", "L", "a", "k", "e", "r", "s" >>
      [] s = "NY" -> << "N", "Y" >>
      [] s = "NJK" -> << "N", "J", "K" >>
      [] s = "LAK" -> << "L", "A", "K" >>
      [] s = "WSH" -> << "W", "S", "H" >>
      [] s = "WAS" -> << "W", "A", "S" >>
      [] s = "CIN" -> << "C", "I", "N" >>
      [] s = "washington" -> << "w", "a", "s", "h", "i", "n", "g", "t", "o", "n" >>
      [] s = "washingabc" -> << "w", "a", "s", "h", "i", "n", "g", "a", "b", "c" >>
      [] s = "cincinnati" -> << "c", "i", "n", "c", "i", "n", "n", "a", "t", "i" >>
      [] s = "cincinnxyz" -> << "c", "i", "n", "c", "i", "n", "n", "x", "y", "z" >>
      [] OTHER -> << >>

\* str.lower(), one character at a time
lower(chars) ==
    [ i \in DOMAIN chars |->
        IF \E n \in DOMAIN UpperCase : UpperCase[n] = chars[i]
        THEN LowerCase[CHOOSE n \in DOMAIN UpperCase : UpperCase[n] = chars[i]]
        ELSE chars[i] ]

\* str.replace(old, ''), for a single character old
RECURSIVE replace(_, _)
replace(chars, old) ==
    IF chars = << >> THEN << >>
    ELSE IF Head(chars) = old THEN replace(Tail(chars), old)
    ELSE << Head(chars) >> \o replace(Tail(chars), old)

\* The place of a character in the order of sorted(): the lower-case letters
\* in their order, any other character before them
Ord(ch) ==
    IF \E n \in DOMAIN LowerCase : LowerCase[n] = ch
    THEN CHOOSE n \in DOMAIN LowerCase : LowerCase[n] = ch
    ELSE 0

\* a <= b in the order of Python strings
RECURSIVE StrLeq(_, _)
StrLeq(a, b) ==
    IF a = << >> THEN TRUE
    ELSE IF b = << >> THEN FALSE
    ELSE IF Ord(Head(a)) # Ord(Head(b)) THEN Ord(Head(a)) < Ord(Head(b))
    ELSE StrLeq(Tail(a), Tail(b))

\* _game_key: the codes (or the team names), lower-cased, without spaces and
\* hyphens, in sorted order
_game_key(game) ==
    LET away == replace(replace(lower(Spelling(
                    OrStr(OrStr(Get(game, "away_code"), Get(game, "away_team")), ""))), " "), "-")
        home == replace(replace(lower(Spelling(
                    OrStr(OrStr(Get(game, "home_code"), Get(game, "home_team")), ""))), " "), "-")
        teams == IF StrLeq(away, home) THEN << away, home >> ELSE << home, away >>
    IN  Join(teams[1]) \o "@" \o Join(teams[2])

\* A platform record with the other side listed first
Mirror(k) ==
    CASE k = "away_team" -> "home_team"          [] k = "home_team" -> "away_team"
      [] k = "away_code" -> "home_code"          [] k = "home_code" -> "away_code"
      [] k = "away_prob" -> "home_prob"          [] k = "home_prob" -> "away_prob"
      [] k = "away_raw_price" -> "home_raw_price" [] k = "home_raw_price" -> "away_raw_price"
      [] k = "away_ticker" -> "home_ticker"      [] k = "home_ticker" -> "away_ticker"
      [] OTHER -> k

Swapped(record) == [ k \in DOMAIN record |-> record[Mirror(k)] ]

\* A platform record that spells its codes differently
Recoded(record, away_code, home_code) ==
    With(With(record, "away_code", away_code), "home_code", home_code)

\* The listings of event 1 that a later cycle of the feed can bring: as
\* before, in the other order, in lower case, with a hyphen and a space
Listings ==
    LET poly == PolyRecord(1, ArbPrices(1))
        kalshi == KalshiRecord(1, ArbPrices(1))
    IN  { HomepageGame(poly, kalshi),
          HomepageGame(Swapped(poly), Swapped(kalshi)),
          HomepageGame(Recoded(poly, "lal", "bos"), Recoded(kalshi, "lal", "bos")),
          HomepageGame(Recoded(poly, "LA-L", "B OS"), Recoded(kalshi, "LA-L", "B OS")) }

ListingNext ==
    \/ \E game \in Listings : ExecuteArb(game)
    \/ \E open \in {OpenRefs} :
          \E check_status_func \in StatusFuncs :
              Relevant(check_status_func, open) /\ UpdateSettlements(check_status_func)

\* The ledger over cycles of the feed that list event 1 in every way
ListingSpec == Init /\ [][ListingNext]_vars

\* The event key of a bet: _game_key of the codes its legs carry
BetKey(bet) == _game_key([away_code |-> bet.legs[1].code, home_code |-> bet.legs[2].code])

\* C11: no two pending bets are for the same event, whatever the order and
\* the spelling (letter case, spaces, hyphens) of the codes it was listed
\* with: an execute_arb for an event with a pending bet places no second bet.
C11_OnePendingPerEventKey ==
    \A i, j \in PendingIn(data.bets) : i # j => BetKey(data.bets[i]) # BetKey(data.bets[j])

\* The usable opportunity of the game names one platform for both legs
NamesOnePlatform(game) ==
    LET risk_detail == RiskDetail(game)
    IN  /\ ~NotDict(risk_detail)
        /\ Has(risk_detail, "bestAwayFrom") /\ Has(risk_detail, "bestHomeFrom")
        /\ risk_detail.bestAwayFrom = risk_detail.bestHomeFrom
        /\ risk_detail.edge > 0

\* C12: every bet of the ledger has its away leg and its home leg on two
\* different platforms, and execute_arb on an opportunity whose two legs name
\* the same platform returns a rejection and leaves the ledger as it was.
C12_LegsOnTwoPlatforms ==
    /\ \A i \in DOMAIN data.bets :
          data.bets[i].legs[1].platform # data.bets[i].legs[2].platform
    /\ \A game \in Games :
          NamesOnePlatform(game) =>
              \E ret \in {execute_arb(game, data)} :
                  ~ret.ok /\ ret.raised = "" /\ ret.d = data

\* C12 witness: next to a bet placed on two platforms, a call was rejected
\* because its opportunity named one platform for both legs
C12_Witness ==
    /\ call.op = "execute_arb"
    /\ call.reason = "Invalid arbitrage: Both legs on same platform"
    /\ \E i \in DOMAIN data.bets :
          {data.bets[i].legs[1].platform, data.bets[i].legs[2].platform}
              = {"Polymarket", "Kalshi"}

-----------------------------------------------------------------------------
(* The ledger under other settings of the environment *)

\* The settings explored: the shipped ones, a stake of 300 contracts, and a
\* minimum ROI of 1 percent, each with an initial balance (in dollars) that
\* pays for one trade
Settings ==
    { [ env |-> DefaultEnv, initial_balance |-> 150 ],
      [ env |-> [DefaultEnv EXCEPT !.PAPER_TRADING_BET_AMOUNT = 300], initial_balance |-> 300 ],
      [ env |-> [DefaultEnv EXCEPT !.PAPER_TRADING_MIN_ROI = 10000], initial_balance |-> 150 ] }

ConfiguredInit ==
    /\ \E setting \in Settings :
          /\ env = setting.env
          /\ data = [ balance |-> setting.initial_balance * Usd,
                      initial_balance |-> setting.initial_balance * Usd,
                      bets |-> <<>> ]
    /\ disk = data
    /\ call = [op |-> "load_data"]
    /\ threads = NoThreads

ConfiguredSpec == ConfiguredInit /\ [][Next]_vars

\* The game comes with a usable opportunity whose roiPercent is a number
HasRoi(game) ==
    LET risk_detail == RiskDetail(game)
    IN  /\ ~NotDict(risk_detail)
        /\ risk_detail.bestAwayPrice > 0 /\ risk_detail.bestHomePrice > 0
        /\ risk_detail.edge > 0
        /\ GetOr(risk_detail, "roiPercent", 0) # NoneNum

\* C13: every bet of the ledger has a roi_percent strictly greater than the
\* configured minimum ROI, and execute_arb on an opportunity whose roiPercent
\* is at most the configured minimum places no bet.
C13_RoiAboveMinimum ==
    /\ \A i \in DOMAIN data.bets :
          data.bets[i].roi_percent > env.PAPER_TRADING_MIN_ROI
    /\ \A game \in Games :
          (HasRoi(game) /\ GetOr(RiskDetail(game), "roiPercent", 0) <= env.PAPER_TRADING_MIN_ROI)
              => \E ret \in {execute_arb(game, data)} : ~ret.ok /\ ret.d = data

\* C13 witness: under a minimum ROI of 1 percent, an opportunity below it was
\* rejected for its ROI while a bet above it is in the ledger
C13_Witness ==
    /\ env.PAPER_TRADING_MIN_ROI > 0
    /\ call.op = "execute_arb"
    /\ call.reason = "ROI below threshold"
    /\ \E i \in DOMAIN data.bets : data.bets[i].roi_percent > env.PAPER_TRADING_MIN_ROI

\* The bet that a successful call appended has the configured stake as its
\* quantity, the cost and the expected profit of that quantity, and the
\* balance is lowered by the cost
PlacedAtConfiguredStake ==
    (call'.op = "execute_arb" /\ call'.ok) =>
        /\ Len(data'.bets) = Len(data.bets) + 1
        /\ SubSeq(data'.bets, 1, Len(data.bets)) = data.bets
        /\ LET bet == data'.bets[Len(data'.bets)]
           IN  /\ bet.status = "pending"
               /\ bet.settled_amount = 0
               /\ bet.quantity = env.PAPER_TRADING_BET_AMOUNT
               /\ bet.cost = bet.total_cost_per_unit * bet.quantity
               /\ bet.profit = (100 * Cent - bet.total_cost_per_unit) * bet.quantity
               /\ data'.balance = data.balance - bet.cost

\* C14: a successful execute_arb appends exactly one bet, pending and with
\* settled_amount 0, whose quantity is the configured stake, whose cost is
\* totalCost / 100 x quantity and whose expected profit is netEdge / 100 x
\* quantity, and lowers the balance by exactly that cost.
C14_PlacedAtConfiguredStake == [][PlacedAtConfiguredStake]_vars

-----------------------------------------------------------------------------
(* The arbitrage calculator on its own *)

\* The raw prices fed to the calculator, in cents; NoneNum is a price that
\* the record does not carry
FedPrices == {NoneNum, 0 - 5, 0, 30, 34, 64, 66, 68, 70}

\* The platform record of a feed that carries these two prices
PriceRecord(away, home) ==
    (IF away = NoneNum THEN EmptyDict ELSE [away_raw_price |-> away * Cent])
    @@ (IF home = NoneNum THEN EmptyDict ELSE [home_raw_price |-> home * Cent])
    @@ [platform |-> "feed"]

\* The rates of the calculator explored: the shipped ones, and none at all
FeeTables ==
    { DefaultEnv,
      [DefaultEnv EXCEPT !.POLYMARKET_FEE = 0, !.KALSHI_FEE = 0, !.SLIPPAGE_ESTIMATE = 0] }

\* A matched pair of records arrives from the feed
CalcInit ==
    /\ env \in FeeTables
    /\ \E initial_balance \in {CHOOSE b \in InitialBalances : TRUE} :
          data = [ balance |-> initial_balance * Usd,
                   initial_balance |-> initial_balance * Usd,
                   bets |-> <<>> ]
    /\ disk = data
    /\ threads = NoThreads
    /\ \E pa \in FedPrices, ph \in FedPrices, ka \in FedPrices, kh \in FedPrices :
          call = [ op |-> "feed", poly_game |-> PriceRecord(pa, ph),
                   kalshi_game |-> PriceRecord(ka, kh) ]

\* _calculate_risk_free_details(poly_game, kalshi_game) on the pair
Calculate ==
    /\ call.op = "feed"
    /\ call' = [ op |-> "_calculate_risk_free_details",
                 poly_game |-> call.poly_game, kalshi_game |-> call.kalshi_game,
                 ret |-> _calculate_risk_free_details(call.poly_game, call.kalshi_game) ]
    /\ UNCHANGED <<data, disk, env, threads>>

CalcSpec == CalcInit /\ [][Calculate]_vars

\* The last call was the calculator
Calculated == call.op = "_calculate_risk_free_details"

\* The four raw prices of the last call, in 1/1000 cent
PolyAway == GetNum(call.poly_game, "away_raw_price")
PolyHome == GetNum(call.poly_game, "home_raw_price")
KalshiAway == GetNum(call.kalshi_game, "away_raw_price")
KalshiHome == GetNum(call.kalshi_game, "home_raw_price")

AllPricesPositive ==
    /\ NoneNum \notin {PolyAway, PolyHome, KalshiAway, KalshiHome}
    /\ PolyAway > 0 /\ PolyHome > 0 /\ KalshiAway > 0 /\ KalshiHome > 0

\* price x (1 + fee + slippage) under the rates in force
LegCost(price, fee) == (price * (1000 + fee + env.SLIPPAGE_ESTIMATE)) \div 1000

\* Strategy 1: Polymarket away + Kalshi home.  Strategy 2: Kalshi away +
\* Polymarket home
Strategy1Cost == LegCost(PolyAway, env.POLYMARKET_FEE) + LegCost(KalshiHome, env.KALSHI_FEE)
Strategy2Cost == LegCost(KalshiAway, env.KALSHI_FEE) + LegCost(PolyHome, env.POLYMARKET_FEE)

\* The returned opportunity is this strategy
IsStrategy1(ret) ==
    /\ ret.best_away_platform = "Polymarket" /\ ret.best_home_platform = "Kalshi"
    /\ ret.best_away_price = PolyAway /\ ret.best_home_price = KalshiHome
    /\ ret.best_away_effective = LegCost(PolyAway, env.POLYMARKET_FEE)
    /\ ret.best_home_effective = LegCost(KalshiHome, env.KALSHI_FEE)
    /\ ret.total_cost = Strategy1Cost

IsStrategy2(ret) ==
    /\ ret.best_away_platform = "Kalshi" /\ ret.best_home_platform = "Polymarket"
    /\ ret.best_away_price = KalshiAway /\ ret.best_home_price = PolyHome
    /\ ret.best_away_effective = LegCost(KalshiAway, env.KALSHI_FEE)
    /\ ret.best_home_effective = LegCost(PolyHome, env.POLYMARKET_FEE)
    /\ ret.total_cost = Strategy2Cost

\* The scenario of the documentation: 30/68 on Polymarket, 34/64 on Kalshi,
\* under the shipped rates
Documented ==
    /\ env = DefaultEnv
    /\ <<PolyAway, PolyHome, KalshiAway, KalshiHome>>
           = <<30 * Cent, 68 * Cent, 34 * Cent, 64 * Cent>>

\* C15: an opportunity that _calculate_risk_free_details returns is Strategy 1
\* (Polymarket away + Kalshi home) or Strategy 2 (Kalshi away + Polymarket
\* home), each leg costing price x (1 + fee + slippage): the one with the
\* lower total cost, Strategy 1 on a tie.  For 30/68 on Polymarket and 34/64
\* on Kalshi it is Strategy 1 with total cost 99.55 and roiPercent 0.452.
C15_CheaperStrategy ==
    Calculated =>
        /\ ~NotDict(call.ret) =>
              IF Strategy1Cost <= Strategy2Cost THEN IsStrategy1(call.ret)
              ELSE IsStrategy2(call.ret)
        /\ Documented =>
              /\ ~NotDict(call.ret)
              /\ IsStrategy1(call.ret)
              /\ call.ret.total_cost = 99550
              /\ call.ret.roi_percent = 4520

\* C15 witness: the two strategies cost the same, below 100, and Strategy 1
\* was returned
C15_Witness ==
    /\ Calculated
    /\ AllPricesPositive
    /\ env = DefaultEnv
    /\ Strategy1Cost = Strategy2Cost
    /\ ~NotDict(call.ret)
    /\ call.ret.best_away_platform = "Polymarket"

\* The smaller of the two strategy costs
CheaperCost == IF Strategy1Cost <= Strategy2Cost THEN Strategy1Cost ELSE Strategy2Cost

\* C16: _calculate_risk_free_details returns an opportunity exactly when all
\* four raw prices are present and > 0 and the cheaper strategy costs less
\* than 100, and its roiPercent is then positive; otherwise it returns none.
C16_OpportunityIffBelow100 ==
    Calculated =>
        /\ ~NotDict(call.ret) <=> (AllPricesPositive /\ CheaperCost < 100 * Cent)
        /\ ~NotDict(call.ret) => call.ret.roi_percent > 0

\* C16 witness: four positive prices whose cheaper strategy costs 100 or
\* more, and none was returned
C16_Witness ==
    /\ Calculated
    /\ AllPricesPositive
    /\ CheaperCost >= 100 * Cent
    /\ NotDict(call.ret)

\* No rates, and on each platform the away and the home price sum to 100
ZeroRatesFairBooks ==
    /\ Calculated
    /\ env.POLYMARKET_FEE = 0 /\ env.KALSHI_FEE = 0 /\ env.SLIPPAGE_ESTIMATE = 0
    /\ AllPricesPositive
    /\ PolyAway + PolyHome = 100 * Cent
    /\ KalshiAway + KalshiHome = 100 * Cent

\* roi_percent is net / total x 100 rounded to four decimals (both in whole
\* cents)
IsRoiOf(roi_percent, net, total) ==
    LET n == net \div Cent
        t == total \div Cent
        d == roi_percent * t - n * 1000000
    IN  2 * (IF d < 0 THEN 0 - d ELSE d) <= t

-----------------------------------------------------------------------------
(* The probability normalization of the feeds.  A raw price is an integer  *)
(* number of 1/10 cent; a probability is a whole percentage.               *)

\* The raw prices explored, from 0 to 100 cents
RawPrices == {0, 5, 10, 295, 300, 305, 340, 680, 700, 705, 1000}

\* math.floor(raw / total * 100), for raw >= 0 and total > 0
FloorPct(raw, total) == (raw * 100) \div total

\* KalshiAPI.get_nba_games, lines 217-240: scaled by the sum, floored, the
\* remainder to the smaller raw value (to the away side on a tie)
KalshiNormalize(away_raw, home_raw) ==
    LET total == away_raw + home_raw
        away_floor == FloorPct(away_raw, total)
        home_floor == FloorPct(home_raw, total)
        remainder == 100 - (away_floor + home_floor)
    IN  IF total > 0
        THEN IF away_raw <= home_raw
             THEN << away_floor + remainder, home_floor >>
             ELSE << away_floor, home_floor + remainder >>
        ELSE << 0, 0 >>

\* _build_games_from_kalshi_markets, lines 711-727: the same steps on the
\* raw prices of the entry
BuildGamesNormalize(away_raw, home_raw) ==
    LET total == away_raw + home_raw
        away_pct == FloorPct(away_raw, total)
        home_pct == FloorPct(home_raw, total)
        remainder == 100 - (away_pct + home_pct)
    IN  IF total > 0
        THEN IF away_raw <= home_raw
             THEN << away_pct + remainder, home_pct >>
             ELSE << away_pct, home_pct + remainder >>
        ELSE << 0, 0 >>

\* PolymarketAPI.get_nba_games, lines 241-254: the two raw probabilities
\* floored as they are, the remainder to the smaller one
PolymarketNormalize(prob1, prob2) ==
    LET floor1 == prob1 \div 10
        floor2 == prob2 \div 10
        remainder == 100 - (floor1 + floor2)
    IN  IF prob1 <= prob2
        THEN << floor1 + remainder, floor2 >>
        ELSE << floor1, floor2 + remainder >>

\* A market with its two raw prices arrives
NormInit ==
    /\ env = DefaultEnv
    /\ \E initial_balance \in {CHOOSE b \in InitialBalances : TRUE} :
          data = [ balance |-> initial_balance * Usd,
                   initial_balance |-> initial_balance * Usd,
                   bets |-> <<>> ]
    /\ disk = data
    /\ threads = NoThreads
    /\ \E a \in RawPrices, b \in RawPrices : call = [op |-> "feed", a |-> a, b |-> b]

Normalized(copy, ret) ==
    /\ call.op = "feed"
    /\ call' = [op |-> "normalize", copy |-> copy, a |-> call.a, b |-> call.b, ret |-> ret]
    /\ UNCHANGED <<data, disk, env, threads>>

NormalizeKalshi == Normalized("kalshi_api", KalshiNormalize(call.a, call.b))
NormalizeBuildGames == Normalized("api", BuildGamesNormalize(call.a, call.b))
NormalizePolymarket == Normalized("polymarket_api", PolymarketNormalize(call.a, call.b))

NormNext ==
    \/ NormalizeKalshi
    \/ NormalizeBuildGames
    \/ NormalizePolymarket

NormSpec == NormInit /\ [][NormNext]_vars

\* Two non-negative whole percentages that sum to exactly 100 when a + b > 0,
\* and (0, 0) when a + b <= 0
IsNormalized(a, b, ret) ==
    IF a + b > 0
    THEN ret[1] \in 0..100 /\ ret[2] \in 0..100 /\ ret[1] + ret[2] = 100
    ELSE ret = << 0, 0 >>

\* The copies that scale by the sum are normalized on every input
ScaledCopiesNormalized ==
    (call.op = "normalize" /\ call.copy # "polymarket_api") =>
        IsNormalized(call.a, call.b, call.ret)

\* C18: for all raw prices a, b >= 0, every copy of the normalization returns
\* two non-negative integers that sum to exactly 100 when a + b > 0, and
\* (0, 0) when a + b <= 0.
C18_NormalizedTo100 ==
    call.op = "normalize" => IsNormalized(call.a, call.b, call.ret)

-----------------------------------------------------------------------------
(* The ledger under the threads of src/api.py: monitor_job and               *)
(* check_paper_trading_settlements on the scheduler's pool, reset_paper_state *)
(* on a thread of the server.  The source takes no lock; a thread can be     *)
(* preempted between any two statements and between the read and the write   *)
(* of an augmented assignment.  The checks of execute_arb (102-214) and the   *)
(* evaluation of one bet (439-489) are taken as one step each.                *)

\* The games monitor_job finds tradable
ThreadGames == { Game(e, ArbPrices(e)) : e \in Events }

\* reset_data, lines 27-32: the new dict
FreshLedger(d) ==
    [ balance |-> d.initial_balance, initial_balance |-> d.initial_balance, bets |-> <<>> ]

Idle == [pc |-> "idle"]
Done == [pc |-> "done"]

\* The calls of a round start together on an idle process.  base is the
\* ledger they start from, dict the identity of the dict that self.data
\* names (reset_data binds a new one)
StartRound ==
    /\ threads = NoThreads
    /\ \E game \in ThreadGames \cup {EmptyDict}, reset \in BOOLEAN, open \in {OpenRefs} :
       \E check_status_func \in StatusFuncs \cup {EmptyDict} :
          /\ game # EmptyDict => Len(data.bets) < MaxBets
          /\ check_status_func # EmptyDict => Relevant(check_status_func, open)
          /\ Cardinality({"monitor" : x \in {game} \ {EmptyDict}}
                         \cup {"settler" : x \in {check_status_func} \ {EmptyDict}}
                         \cup {"server" : x \in {reset} \ {FALSE}}) >= 2
          /\ threads' =
               [ base |-> data, dict |-> 0, game |-> game,
                 check_status_func |-> check_status_func, reset |-> reset,
                 monitor |-> IF game = EmptyDict THEN Idle ELSE [pc |-> "check"],
                 settler |-> IF check_status_func = EmptyDict THEN Idle ELSE [pc |-> "loop"],
                 server |-> IF reset THEN [pc |-> "assign"] ELSE Idle ]
    /\ UNCHANGED <<data, disk, call, env>>

Running == threads # NoThreads

\* execute_arb, lines 102-214: the checks, and the trade they build
MonitorCheck ==
    /\ Running /\ threads.monitor.pc = "check"
    /\ \E ret \in {execute_arb(threads.game, data)} :
          threads' = [threads EXCEPT !.monitor =
                         IF ret.ok THEN [pc |-> "append", trade |-> ret.trade] ELSE Done]
    /\ UNCHANGED <<data, disk, call, env>>

\* Line 216: self.data['bets'].append(trade)
MonitorAppend ==
    /\ Running /\ threads.monitor.pc = "append"
    /\ data' = [data EXCEPT !.bets = Append(@, threads.monitor.trade)]
    /\ threads' = [threads EXCEPT !.monitor.pc = "debit_load"]
    /\ UNCHANGED <<disk, call, env>>

\* Line 217, self.data['balance'] -= total_cost_usd: the dict and its balance
\* are read
MonitorDebitLoad ==
    /\ Running /\ threads.monitor.pc = "debit_load"
    /\ threads' = [threads EXCEPT !.monitor =
                      [pc |-> "debit_store", trade |-> @.trade,
                       dict |-> threads.dict, balance |-> data.balance]]
    /\ UNCHANGED <<data, disk, call, env>>

\* Line 217: the difference is stored into the dict that was read, which is
\* no longer the ledger if reset_data has run since
MonitorDebitStore ==
    /\ Running /\ threads.monitor.pc = "debit_store"
    /\ data' = IF threads.monitor.dict = threads.dict
               THEN [data EXCEPT !.balance = threads.monitor.balance - threads.monitor.trade.cost]
               ELSE data
    /\ threads' = [threads EXCEPT !.monitor = [pc |-> "save"]]
    /\ UNCHANGED <<disk, call, env>>

\* Line 218: save_data
MonitorSave ==
    /\ Running /\ threads.monitor.pc = "save"
    /\ disk' = data
    /\ threads' = [threads EXCEPT !.monitor = Done]
    /\ UNCHANGED <<data, call, env>>

\* Line 437, for bet in self.data['bets']: the list is taken
SettlerLoop ==
    /\ Running /\ threads.settler.pc = "loop"
    /\ threads' = [threads EXCEPT !.settler =
                      [pc |-> "bet", i |-> 1, live |-> TRUE, dead |-> <<>>, changed |-> FALSE]]
    /\ UNCHANGED <<data, disk, call, env>>

\* The list the loop runs over: the list of the ledger, or the list of the
\* dict that reset_data has replaced
SettlerList == IF threads.settler.live THEN data.bets ELSE threads.settler.dead

\* Lines 438-489: the next bet of the list; a pending bet whose legs are all
\* resolved is marked settled
SettlerBet ==
    /\ Running /\ threads.settler.pc = "bet"
    /\ \E list \in {SettlerList} :
       LET fr == threads.settler
           bet == list[fr.i]
           start == [legs |-> bet.legs, all_legs_resolved |-> TRUE, total_payout |-> 0,
                     resolved_legs_count |-> 0, changed |-> FALSE, asked |-> {}, raised |-> FALSE]
       IN  IF fr.i > Len(list)
           THEN /\ threads' = [threads EXCEPT !.settler.pc = IF fr.changed THEN "save" ELSE "done"]
                /\ data' = data
           ELSE IF ~IsPending(bet)
           THEN /\ threads' = [threads EXCEPT !.settler.i = @ + 1]
                /\ data' = data
           ELSE \E st \in {LegLoop(bet, threads.check_status_func, 1, start)} :
                \E after \in {IF Settles(st, bet) THEN SettledBet(bet, st.legs, st.total_payout)
                              ELSE [bet EXCEPT !.legs = st.legs]} :
                   /\ data' = IF fr.live THEN [data EXCEPT !.bets[fr.i] = after] ELSE data
                   /\ threads' =
                        [threads EXCEPT !.settler =
                            [ pc |-> IF Settles(st, bet) THEN "credit_load" ELSE "bet",
                              i |-> IF Settles(st, bet) THEN fr.i ELSE fr.i + 1,
                              live |-> fr.live,
                              dead |-> IF fr.live THEN <<>> ELSE [fr.dead EXCEPT ![fr.i] = after],
                              changed |-> fr.changed \/ st.changed \/ Settles(st, bet) ]]
    /\ UNCHANGED <<disk, call, env>>

\* Line 490, self.data['balance'] += total_payout: the dict and its balance
\* are read
SettlerCreditLoad ==
    /\ Running /\ threads.settler.pc = "credit_load"
    /\ threads' = [threads EXCEPT !.settler =
                      [pc |-> "credit_store", i |-> @.i, live |-> @.live, dead |-> @.dead,
                       changed |-> @.changed, dict |-> threads.dict, balance |-> data.balance]]
    /\ UNCHANGED <<data, disk, call, env>>

\* Line 490: the sum is stored into the dict that was read
SettlerCreditStore ==
    /\ Running /\ threads.settler.pc = "credit_store"
    /\ LET fr == threads.settler
           payout == SettlerList[fr.i].settled_amount
       IN  /\ data' = IF fr.dict = threads.dict
                      THEN [data EXCEPT !.balance = fr.balance + payout]
                      ELSE data
           /\ threads' = [threads EXCEPT !.settler =
                             [pc |-> "bet", i |-> fr.i + 1, live |-> fr.live, dead |-> fr.dead,
                              changed |-> fr.changed]]
    /\ UNCHANGED <<disk, call, env>>

\* Lines 494-495: save_data
SettlerSave ==
    /\ Running /\ threads.settler.pc = "save"
    /\ disk' = data
    /\ threads' = [threads EXCEPT !.settler = Done]
    /\ UNCHANGED <<data, call, env>>

\* reset_data, lines 27-32: self.data names a new dict.  A loop that runs
\* over the list of the old dict keeps that list
ServerAssign ==
    /\ Running /\ threads.server.pc = "assign"
    /\ data' = FreshLedger(data)
    /\ threads' =
         [threads EXCEPT
            !.dict = @ + 1,
            !.server = [pc |-> "save"],
            !.settler = IF @.pc \in {"bet", "credit_load", "credit_store"} /\ @.live
                        THEN [@ EXCEPT !.live = FALSE, !.dead = data.bets]
                        ELSE @ ]
    /\ UNCHANGED <<disk, call, env>>

\* reset_data, line 33: save_data
ServerSave ==
    /\ Running /\ threads.server.pc = "save"
    /\ disk' = data
    /\ threads' = [threads EXCEPT !.server = Done]
    /\ UNCHANGED <<data, call, env>>

\* Every call of the round has returned
AllReturned ==
    /\ Running
    /\ \A t \in {threads.monitor, threads.settler, threads.server} : t.pc \in {"idle", "done"}

\* The process is idle again
EndRound ==
    /\ AllReturned
    /\ threads' = NoThreads
    /\ UNCHANGED <<data, disk, call, env>>

ThreadNext ==
    \/ StartRound
    \/ MonitorCheck \/ MonitorAppend \/ MonitorDebitLoad \/ MonitorDebitStore \/ MonitorSave
    \/ SettlerLoop \/ SettlerBet \/ SettlerCreditLoad \/ SettlerCreditStore \/ SettlerSave
    \/ ServerAssign \/ ServerSave
    \/ EndRound

ThreadSpec == Init /\ [][ThreadNext]_vars

\* The calls of the round
Launched ==
    {"monitor" : x \in {threads.game} \ {EmptyDict}}
    \cup {"settler" : x \in {threads.check_status_func} \ {EmptyDict}}
    \cup {"server" : x \in {threads.reset} \ {FALSE}}

\* One call of the round, run from start to end on ledger d
RunAlone(d, t) ==
    CASE t = "monitor" -> execute_arb(threads.game, d).d
      [] t = "settler" -> update_settlements(d, threads.check_status_func).d
      [] t = "server" -> FreshLedger(d)

\* The calls of the round run one after the other in this order
RECURSIVE RunInOrder(_, _)
RunInOrder(d, order) ==
    IF order = <<>> THEN d
    ELSE RunInOrder(RunAlone(d, Head(order)), Tail(order))

\* The ledgers that the sequential orders of the calls of the round produce
SerialOutcomes ==
    { RunInOrder(threads.base, order) :
        order \in { o \in [1..Cardinality(Launched) -> Launched] :
                        \A m, n \in DOMAIN o : m # n => o[m] # o[n] } }

\* C19: when execute_arb, update_settlements and reset_data run on different
\* threads, the ledger they leave (balance and bets) is one that some
\* sequential order of the same calls produces.
C19_Serializable == AllReturned => data \in SerialOutcomes

-----------------------------------------------------------------------------
(* The data file across a crash of the process.  save_data opens the file    *)
(* with mode 'w', which empties it, and json.dump then writes the ledger key *)
(* by key; a process that dies in between leaves what was written so far.    *)
(* The next process reads the file in load_data.                              *)

\* The file after open(DATA_FILE, 'w') and the first n top-level keys of d:
\* the text ends before the closing brace
TornFile(d, n) == [torn |-> SubSeq(<<d.balance, d.initial_balance, d.bets>>, 1, n)]

\* json.load, line 15: the text of a whole ledger parses, a torn one raises
Parses(file) == "torn" \notin DOMAIN file

\* The process is up: its last call returned
Alive == call.op # "crash"

\* execute_arb called by monitor_job
ServeExecuteArb ==
    /\ Alive
    /\ \E game \in ThreadGames : ExecuteArb(game)

\* update_settlements called by check_paper_trading_settlements
ServeUpdateSettlements ==
    /\ Alive
    /\ \E open \in {OpenRefs} :
          \E check_status_func \in StatusFuncs :
              Relevant(check_status_func, open) /\ UpdateSettlements(check_status_func)

\* The ledgers that a call in the current state passes to save_data
Saving ==
    { execute_arb(game, data).d :
        game \in { g \in ThreadGames : execute_arb(g, data).ok /\ Len(data.bets) < MaxBets } }
    \cup
    { update_settlements(data, check_status_func).d :
        check_status_func \in { f \in StatusFuncs :
                                  /\ Relevant(f, OpenRefs)
                                  /\ update_settlements(data, f).changed } }

\* The process dies in save_data, lines 35-37: before the open, after it with
\* part of the text written, or with all of it written
CrashInSave ==
    /\ Alive
    /\ \E after \in Saving :
       \E file \in {disk, after} \cup { TornFile(after, n) : n \in 0..3 } :
          /\ data' = after
          /\ disk' = file
          /\ call' = [op |-> "crash", before |-> disk, after |-> after]
    /\ UNCHANGED <<env, threads>>

\* The next process: __init__ and load_data, lines 8-19, with the reset_data
\* (21-33) of a file that does not parse
Restart ==
    /\ ~Alive
    /\ data' = IF Parses(disk) THEN disk ELSE FreshLedger(call.after)
    /\ disk' = data'
    /\ call' = [op |-> "load_data", before |-> call.before, after |-> call.after]
    /\ UNCHANGED <<env, threads>>

CrashNext ==
    \/ ServeExecuteArb
    \/ ServeUpdateSettlements
    \/ CrashInSave
    \/ Restart

CrashSpec == Init /\ [][CrashNext]_vars

\* The process has just come up after a crash in save_data
Restarted == call.op = "load_data" /\ "before" \in DOMAIN call

\* C20: after a crash at any point of save_data, load_data gives the ledger
\* as it was before that write or as it is after it, never a partial one and
\* never the empty ledger at the initial balance in their place.
C20_FileIsBeforeOrAfter == Restarted => data \in {call.before, call.after}

-----------------------------------------------------------------------------
(* The text of the data file.  The variable disk holds the ledger that       *)
(* save_data was given; json.dump writes it as text and the json.load of a   *)
(* later process reads the text back.                                        *)

\* json.dump of a str or None: a quoted string or the literal null
JsonStr(s) == IF s = None THEN <<"null">> ELSE <<"string", s>>

\* A decoder that reads null as the text "None"
PyStrOfNull(token) == IF token[1] = "null" THEN "None" ELSE token[2]

\* json.load of a quoted string or null
PyStr(token) == IF token[1] = "null" THEN None ELSE token[2]

\* The keys of a leg and of a bet whose values are str or None
LegStrKeys == {"platform", "market_id", "team", "code"}
BetStrKeys == {"id", "status"}

\* save_data, line 37: json.dump(self.data, f, indent=4); numbers and lists
\* are written as they are
json_dump(d) ==
    [ d EXCEPT !.bets =
        [ i \in DOMAIN d.bets |->
            [ k \in DOMAIN d.bets[i] |->
                IF k \in BetStrKeys THEN JsonStr(d.bets[i][k])
                ELSE IF k = "legs"
                THEN [ n \in DOMAIN d.bets[i].legs |->
                         [ j \in DOMAIN d.bets[i].legs[n] |->
                             IF j \in LegStrKeys THEN JsonStr(d.bets[i].legs[n][j])
                             ELSE d.bets[i].legs[n][j] ] ]
                ELSE d.bets[i][k] ] ] ]

\* load_data, line 15: self.data = json.load(f)
json_load(text) ==
    [ text EXCEPT !.bets =
        [ i \in DOMAIN text.bets |->
            [ k \in DOMAIN text.bets[i] |->
                IF k \in BetStrKeys THEN PyStr(text.bets[i][k])
                ELSE IF k = "legs"
                THEN [ n \in DOMAIN text.bets[i].legs |->
                         [ j \in DOMAIN text.bets[i].legs[n] |->
                             IF j \in LegStrKeys THEN PyStr(text.bets[i].legs[n][j])
                             ELSE text.bets[i].legs[n][j] ] ]
                ELSE text.bets[i][k] ] ] ]

\* PaperTradingSystem(): __init__ and load_data on the file that exists
Construct ==
    /\ data' = json_load(json_dump(disk))
    /\ call' = [op |-> "load_data"]
    /\ UNCHANGED <<disk, env, threads>>

ReloadNext ==
    \/ Next
    \/ Construct

ReloadSpec == Init /\ [][ReloadNext]_vars

\* A call that changes the ledger leaves the file equal to it, and a
\* construction gives the ledger that was in memory
PersistThenReload ==
    /\ (call'.op \in {"execute_arb", "update_settlements"} /\ data' # data) => disk' = data'
    /\ call'.op = "load_data" => data' = data

-----------------------------------------------------------------------------
(* update_settlements with a status lookup that can fail: for a market the   *)
(* callback raises, or returns None, which makes status.get raise at line    *)
(* 468.  Nothing in update_settlements catches; the caller in src/api.py     *)
(* (1561-1564) catches what leaves it.                                        *)

\* The lookups of the explored passes
LookupFuncs ==
    { [r \in MarketRefs |-> IF outcome[r] \in {"raise", "None"}
                            THEN [fault |-> outcome[r]]
                            ELSE Answer(r, outcome[r])] :
        outcome \in [MarketRefs -> {"open", "away", "home", "raise", "None"}] }

\* The lookup with every failure read as an unresolved market
Degraded(check_status_func) ==
    [r \in DOMAIN check_status_func |->
        IF Faults(check_status_func[r]) THEN Unresolved ELSE check_status_func[r]]

\* paper_trader.update_settlements(check_status) inside the try of lines
\* 1561-1564: what the pass did before an exception left it stays in memory,
\* and save_data is not reached
SettleWithLookup ==
    \E open \in {OpenRefs} :
    \E check_status_func \in LookupFuncs :
    \E done \in {update_settlements(data, check_status_func)} :
        /\ \A r \in MarketRefs \ open : check_status_func[r] = Unresolved
        /\ data' = done.d
        /\ disk' = IF done.changed /\ ~done.raised THEN done.d ELSE disk
        /\ call' = [op |-> "update_settlements", check_status_func |-> check_status_func,
                    raised |-> done.raised]
        /\ UNCHANGED <<env, threads>>

LookupNext ==
    \/ \E game \in ThreadGames : ExecuteArb(game)
    \/ SettleWithLookup

LookupSpec == Init /\ [][LookupNext]_vars

\* A pass leaves the ledger and the file that the same pass leaves when each
\* failed lookup answers unresolved
FaultIsUnresolved ==
    call'.op = "update_settlements" =>
        \E want \in {update_settlements(data, Degraded(call'.check_status_func))} :
            /\ data' = want.d
            /\ disk' = IF want.changed THEN want.d ELSE disk

\* C22: when the status lookup raises or returns nothing for a leg, the pass
\* treats the leg as unresolved: its bet stays pending, the other bets of
\* the pass are evaluated, and the bets the pass settled are kept and saved.
C22_FaultIsUnresolved == [][FaultIsUnresolved]_vars

-----------------------------------------------------------------------------
(* src/api.py: monitor_job, the cycle that offers the tradable games of the  *)
(* feed to execute_arb                                                        *)

\* The homepage_games of a cycle: the two events with an opportunity, event
\* 1 listed a second time in lower case, and event 1 without an opportunity
\* or with a zero price
FeedGames ==
    { Game(e, ArbPrices(e)) : e \in Events }
    \cup { Recoded(Game(1, ArbPrices(1)), "lal", "bos") }
    \cup { Game(1, p) : p \in {NoArbPrices, ZeroPrices} }

MaxFeed == 2

Feeds == UNION { [1..n -> FeedGames] : n \in 0..MaxFeed }

\* Line 1681: f"{away_code}@{home_code}".lower()
FeedKey(game) ==
    lower(Spelling(Str(Get(game, "away_code"))) \o << "@" >>
          \o Spelling(Str(Get(game, "home_code"))))

\* monitor_job, lines 1566-1790, on the homepage_games of the cycle.
\* The loop over unique_games starts with a call of
\* paper_trader.is_paper_trading_eligible_market (1705).  PaperTradingSystem
\* (src/paper_trading.py 7-495) has no attribute of that name and nothing
\* in src/ sets one, so the call raises AttributeError for the first game;
\* the except of line 1789 ends the cycle before tradable_games is used.
monitor_job(all_games, d) ==
    LET RECURSIVE Unique(_, _)
        Unique(i, seen_game_keys) ==
            IF i > Len(all_games) THEN <<>>
            ELSE IF FeedKey(all_games[i]) \in seen_game_keys
            THEN Unique(i + 1, seen_game_keys)
            ELSE <<all_games[i]>> \o Unique(i + 1, seen_game_keys \cup {FeedKey(all_games[i])})
        unique_games == Unique(1, {})
    IN  IF env.PAPER_TRADING_ENABLED # "true"
        THEN [raised |-> "", unique_games |-> <<>>, offered |-> <<>>, d |-> d]
        ELSE IF unique_games = <<>>
        THEN [raised |-> "", unique_games |-> unique_games, offered |-> <<>>, d |-> d]
        ELSE [raised |-> "AttributeError", unique_games |-> unique_games,
              offered |-> <<>>, d |-> d]

\* One cycle of the scheduler job
MonitorJob ==
    \E all_games \in Feeds :
    \E ret \in {monitor_job(all_games, data)} :
        /\ data' = ret.d
        /\ disk' = IF ret.d # data THEN ret.d ELSE disk
        /\ call' = [op |-> "monitor_job", all_games |-> all_games,
                    raised |-> ret.raised, offered |-> ret.offered]
        /\ UNCHANGED <<env, threads>>

\* The process with PAPER_TRADING_ENABLED unset or set to true
MonitorInit ==
    /\ \E initial_balance \in InitialBalances :
          data = [ balance |-> initial_balance * Usd,
                   initial_balance |-> initial_balance * Usd,
                   bets |-> <<>> ]
    /\ disk = data
    /\ call = [op |-> "load_data"]
    /\ env \in {DefaultEnv, [DefaultEnv EXCEPT !.PAPER_TRADING_ENABLED = "true"]}
    /\ threads = NoThreads

MonitorSpec == MonitorInit /\ [][MonitorJob]_vars

\* A game whose pre-computed opportunity has a positive edge and non-zero
\* prices
Qualifies(game) ==
    /\ ~NotDict(GetDict(game, "riskFreeArb"))
    /\ GetNum(game.riskFreeArb, "edge") > 0
    /\ GetNum(game.riskFreeArb, "bestAwayPrice") > 0
    /\ GetNum(game.riskFreeArb, "bestHomePrice") > 0
    /\ game.polymarket.raw_away > 0 /\ game.polymarket.raw_home > 0
    /\ game.kalshi.raw_away > 0 /\ game.kalshi.raw_home > 0

\* With paper trading enabled, the first game of the cycle, if it qualifies
\* and the balance covers it, is a pending bet after the cycle
FirstQualifyingPlaced ==
    (call'.op = "monitor_job" /\ env.PAPER_TRADING_ENABLED = "true") =>
        \A g \in {call'.all_games} :
            ( /\ g # <<>>
              /\ Qualifies(g[1])
              /\ ~HasPending(data.bets, GameId(g[1]))
              /\ execute_arb(g[1], data).ok )
            => HasPending(data'.bets, GameId(g[1]))

\* C23: with paper trading enabled, a cycle of monitor_job offers every
\* distinct game with a positive pre-computed edge and non-zero prices to
\* execute_arb once, so that a qualifying opportunity with enough balance
\* and no pending bet on its key is a pending bet after the cycle.
C23_QualifyingPlaced == [][FirstQualifyingPlaced]_vars

-----------------------------------------------------------------------------
(* src/api.py: _match_games_enhanced, the pairing of the records of the two  *)
(* platforms.  A similarity is a fraction <<numerator, denominator>>.        *)

\* a >= b and a > b for fractions with positive denominators
FracGeq(a, b) == a[1] * b[2] >= b[1] * a[2]
FracGt(a, b) == a[1] * b[2] > b[1] * a[2]

\* .lower().replace(' ', '').replace('-', '') of a team name
Squeezed(name) == replace(replace(lower(Spelling(name)), " "), "-")

\* _calculate_similarity, lines 850-892, on two strings given by their
\* characters
_calculate_similarity(str1, str2) ==
    LET s1 == IF Len(str1) > Len(str2) THEN lower(str2) ELSE lower(str1)
        s2 == IF Len(str1) > Len(str2) THEN lower(str1) ELSE lower(str2)
        IsIn(a, b) == \E i \in 0..(Len(b) - Len(a)) : SubSeq(b, i + 1, i + Len(a)) = a
        Min3(x, y, z) == IF x <= y /\ x <= z THEN x ELSE IF y <= z THEN y ELSE z
        \* current_row[0..j-1] is row (as a sequence, index + 1); the rest of it
        RECURSIVE Fill(_, _, _)
        Fill(previous_row, row, i) ==
            IF Len(row) > Len(s1) THEN row
            ELSE LET j == Len(row)
                     change == previous_row[j] + IF s1[j] # s2[i] THEN 1 ELSE 0
                 IN  Fill(previous_row,
                          Append(row, Min3(previous_row[j + 1] + 1, row[j] + 1, change)), i)
        RECURSIVE Rows(_, _)
        Rows(current_row, i) ==
            IF i > Len(s2) THEN current_row
            ELSE Rows(Fill(current_row, <<i>>, i), i + 1)
        distance == Rows([j \in 1..(Len(s1) + 1) |-> j - 1], 1)[Len(s1) + 1]
    IN  IF str1 = str2 THEN <<1, 1>>
        ELSE IF Len(str1) = 0 \/ Len(str2) = 0 THEN <<0, 1>>
        ELSE IF s1 = s2 THEN <<1, 1>>
        ELSE IF IsIn(s1, s2) THEN <<9, 10>>
        ELSE <<Len(s2) - distance, Len(s2)>>

\* A test of the two similarities of the listed order, or of the two
\* similarities of the swapped order
SimilarBothWays(poly_game, kalshi_game, threshold) ==
    LET sim(a, b) == _calculate_similarity(Squeezed(a), Squeezed(b))
    IN  \/ /\ FracGeq(sim(poly_game.away_team, kalshi_game.away_team), threshold)
           /\ FracGeq(sim(poly_game.home_team, kalshi_game.home_team), threshold)
        \/ /\ FracGeq(sim(poly_game.away_team, kalshi_game.home_team), threshold)
           /\ FracGeq(sim(poly_game.home_team, kalshi_game.away_team), threshold)

\* _fuzzy_match, lines 818-847: "KeyError" where a subscript finds no key,
\* else whether the records match
_fuzzy_match(poly_game, kalshi_game, threshold) ==
    LET team_keys == {"away_team", "home_team"}
        sim(a, b) == _calculate_similarity(Squeezed(a), Squeezed(b))
    IN  IF ~Has(poly_game, "away_code") \/ ~Has(kalshi_game, "away_code") THEN "KeyError"
        ELSE IF poly_game.away_code = kalshi_game.away_code
                /\ (~Has(poly_game, "home_code") \/ ~Has(kalshi_game, "home_code"))
        THEN "KeyError"
        ELSE IF poly_game.away_code = kalshi_game.away_code
                /\ poly_game.home_code = kalshi_game.home_code
        THEN "True"
        ELSE IF \E k \in team_keys : ~Has(poly_game, k) \/ ~Has(kalshi_game, k) THEN "KeyError"
        ELSE LET away_similarity == sim(poly_game.away_team, kalshi_game.away_team)
                 home_similarity == sim(poly_game.home_team, kalshi_game.home_team)
             IN  IF \/ /\ FracGeq(away_similarity, threshold)
                       /\ FracGeq(home_similarity, threshold)
                    \/ /\ FracGeq(away_similarity, threshold)
                       /\ FracGeq(sim(poly_game.away_team, kalshi_game.home_team), threshold)
                    \/ /\ FracGeq(home_similarity, threshold)
                       /\ FracGeq(sim(poly_game.home_team, kalshi_game.away_team), threshold)
                 THEN "True" ELSE "False"

\* Lines 902 and 906: f"{away_code}@{home_code}".lower()
MatchKey(game) ==
    lower(Spelling(Str(Get(game, "away_code"))) \o << "@" >>
          \o Spelling(Str(Get(game, "home_code"))))

\* (away_sim + home_sim) / 2, lines 923-931
AvgSim(poly_game, kalshi_game) ==
    LET away_sim == _calculate_similarity(Squeezed(OrStr(Get(poly_game, "away_team"), "")),
                                          Squeezed(OrStr(Get(kalshi_game, "away_team"), "")))
        home_sim == _calculate_similarity(Squeezed(OrStr(Get(poly_game, "home_team"), "")),
                                          Squeezed(OrStr(Get(kalshi_game, "home_team"), "")))
    IN  <<away_sim[1] * home_sim[2] + home_sim[1] * away_sim[2], 2 * away_sim[2] * home_sim[2]>>

fuzzy_threshold == <<7, 10>>

\* _match_games_enhanced, lines 895-945: [raised, matched_games]
_match_games_enhanced(poly_games, kalshi_games) ==
    LET \* lines 901-903: the last record of a key stays in the dict
        InDict(key) == \E n \in DOMAIN kalshi_games : MatchKey(kalshi_games[n]) = key
        kalshi_dict(key) ==
            kalshi_games[CHOOSE n \in DOMAIN kalshi_games :
                            /\ MatchKey(kalshi_games[n]) = key
                            /\ \A m \in DOMAIN kalshi_games :
                                  MatchKey(kalshi_games[m]) = key => m <= n]
        \* lines 919-935: the loop over kalshi_games for one poly_game, from
        \* record n on; best = [raised, best_match, best_score]
        RECURSIVE Best(_, _, _)
        Best(poly_game, n, best) ==
            IF n > Len(kalshi_games) THEN best
            ELSE LET kalshi_game == kalshi_games[n]
                     fuzzy == _fuzzy_match(poly_game, kalshi_game, fuzzy_threshold)
                 IN  IF fuzzy = "KeyError" THEN [best EXCEPT !.raised = "KeyError"]
                     ELSE IF fuzzy = "False" THEN Best(poly_game, n + 1, best)
                     ELSE IF FracGt(AvgSim(poly_game, kalshi_game), best.best_score)
                     THEN Best(poly_game, n + 1,
                               [raised |-> "", best_match |-> <<kalshi_game>>,
                                best_score |-> AvgSim(poly_game, kalshi_game)])
                     ELSE Best(poly_game, n + 1, best)
        \* lines 905-943: the loop over poly_games, from record i on
        RECURSIVE Loop(_, _)
        Loop(i, matched_games) ==
            IF i > Len(poly_games) THEN [raised |-> "", matched_games |-> matched_games]
            ELSE LET poly_game == poly_games[i]
                     poly_key == MatchKey(poly_game)
                     best == Best(poly_game, 1, [raised |-> "", best_match |-> <<>>,
                                                 best_score |-> fuzzy_threshold])
                 IN  IF InDict(poly_key)
                     THEN Loop(i + 1, Append(matched_games,
                                   [polymarket |-> poly_game, kalshi |-> kalshi_dict(poly_key),
                                    match_type |-> "exact"]))
                     ELSE IF best.raised # ""
                     THEN [raised |-> best.raised, matched_games |-> matched_games]
                     ELSE IF best.best_match # <<>>
                     THEN Loop(i + 1, Append(matched_games,
                                   [polymarket |-> poly_game, kalshi |-> best.best_match[1],
                                    match_type |-> "fuzzy"]))
                     ELSE Loop(i + 1, matched_games)
    IN  Loop(1, <<>>)

MatchRecord(away_code, home_code, away_team, home_team) ==
    [ away_code |-> away_code, home_code |-> home_code,
      away_team |-> away_team, home_team |-> home_team ]

\* The Polymarket records of the explored calls: an event listed as Kalshi
\* lists it, the same event under another code and label, a record without
\* codes, two records whose labels are close to those of a Kalshi record, and
\* a record without the label of the away side
PolyPool ==
    { MatchRecord("LAL", "BOS", "Lakers", "Celtics"),
      MatchRecord("LAK", "BOS", "LA Lakers", "Celtics"),
      Without(MatchRecord("", "", "Nets", "Bulls"), {"away_code", "home_code"}),
      MatchRecord("NY", "NJK", "NY", "NJK"),
      MatchRecord("WSH", "CIN", "washington", "cincinnati"),
      Without(MatchRecord("LAL", "MIA", "", "Heat"), {"away_team"}) }

\* The Kalshi records of the explored calls
KalshiPool ==
    { MatchRecord("LAL", "BOS", "Lakers", "Celtics"),
      MatchRecord("BOS", "LAL", "Celtics", "Lakers"),
      Without(MatchRecord("", "", "Knicks", "Heat"), {"away_code", "home_code"}),
      MatchRecord("NY", "NYK", "NY", "NYK"),
      MatchRecord("WAS", "CIN", "washingabc", "cincinnxyz") }

MaxRecords == 2

\* The lists of at most MaxRecords different records
Lists(pool) ==
    UNION { { l \in [1..n -> pool] : \A i, j \in 1..n : i # j => l[i] # l[j] } :
            n \in 0..MaxRecords }

MatchInit ==
    /\ \E initial_balance \in {150} :
          data = [ balance |-> initial_balance * Usd,
                   initial_balance |-> initial_balance * Usd,
                   bets |-> <<>> ]
    /\ disk = data
    /\ \E poly_games \in Lists(PolyPool), kalshi_games \in Lists(KalshiPool) :
          call = [op |-> "feed", poly_games |-> poly_games, kalshi_games |-> kalshi_games]
    /\ env = DefaultEnv
    /\ threads = NoThreads

\* matched_games, matched_count = _match_games_enhanced(poly_games, kalshi_games)
Match ==
    /\ call.op = "feed"
    /\ call' = [op |-> "_match_games_enhanced", poly_games |-> call.poly_games,
                kalshi_games |-> call.kalshi_games,
                ret |-> _match_games_enhanced(call.poly_games, call.kalshi_games)]
    /\ UNCHANGED <<data, disk, env, threads>>

MatchSpec == MatchInit /\ [][Match]_vars

Matched == call.op = "_match_games_enhanced"

\* A record with both codes and both team names
Complete(game) == \A k \in {"away_code", "home_code", "away_team", "home_team"} : Has(game, k)

\* C24: _match_games_enhanced returns no match for empty inputs, leaves a
\* record without a code or a team name unmatched, also when the other
\* platform has such a record, and never raises.
C24_IncompleteUnmatched ==
    Matched =>
        /\ call.ret.raised = ""
        /\ (call.poly_games = <<>> \/ call.kalshi_games = <<>>) => call.ret.matched_games = <<>>
        /\ \A n \in DOMAIN call.ret.matched_games :
              /\ Complete(call.ret.matched_games[n].polymarket)
              /\ Complete(call.ret.matched_games[n].kalshi)

\* The Kalshi records that are candidates for a Polymarket record: both
\* similarities reach the threshold, in the listed or in the swapped order
Candidates(poly_game, kalshi_games) ==
    { n \in DOMAIN kalshi_games :
        /\ Complete(kalshi_games[n])
        /\ SimilarBothWays(poly_game, kalshi_games[n], fuzzy_threshold) }

\* The Polymarket record has no exact key hit
NoKeyHit(poly_game, kalshi_games) ==
    \A n \in DOMAIN kalshi_games : MatchKey(kalshi_games[n]) # MatchKey(poly_game)

\* C25: a Polymarket record without an exact key hit gets a fuzzy match with
\* a Kalshi record only if both similarities reach the threshold in the
\* listed or in the swapped order, and among these candidates, one whose
\* average equals the threshold included, it gets one of the highest average.
C25_FuzzyMatchIsBestCandidate ==
    (Matched /\ call.ret.raised = "") =>
        /\ \A n \in DOMAIN call.ret.matched_games :
              LET m == call.ret.matched_games[n]
              IN  m.match_type = "fuzzy" =>
                     /\ NoKeyHit(m.polymarket, call.kalshi_games)
                     /\ \E c \in Candidates(m.polymarket, call.kalshi_games) :
                           /\ call.kalshi_games[c] = m.kalshi
                           /\ \A o \in Candidates(m.polymarket, call.kalshi_games) :
                                 FracGeq(AvgSim(m.polymarket, m.kalshi),
                                         AvgSim(m.polymarket, call.kalshi_games[o]))
        /\ \A i \in DOMAIN call.poly_games :
              ( /\ Complete(call.poly_games[i])
                /\ NoKeyHit(call.poly_games[i], call.kalshi_games)
                /\ Candidates(call.poly_games[i], call.kalshi_games) # {} )
              => \E n \in DOMAIN call.ret.matched_games :
                    /\ call.ret.matched_games[n].polymarket = call.poly_games[i]
                    /\ call.ret.matched_games[n].match_type = "fuzzy"

\* C26: no Kalshi record is paired with more than one Polymarket record.
C26_KalshiRecordPairedOnce ==
    Matched =>
        \A m, n \in DOMAIN call.ret.matched_games :
            m # n => call.ret.matched_games[m].kalshi # call.ret.matched_games[n].kalshi

-----------------------------------------------------------------------------
(* src/api.py: calculate_comparisons and the history of a game.  The module  *)
(* globals of src/api.py (nba_game_history, the clock of datetime.now) are    *)
(* fields of env.  Probabilities are whole percents, as the normalization of  *)
(* the platform records gives them.                                           *)

\* deque(maxlen=60), lines 72-77
maxlen == 60

\* A deque that keeps every entry
AppendUnbounded(queue, x) == Append(queue, x)

\* deque.append: a full deque drops its oldest entry
DequeAppend(queue, x) ==
    IF Len(queue) >= maxlen THEN Append(Tail(queue), x) ELSE Append(queue, x)

\* A history that needs more than ten samples
MoreThanTenSamples(queue) == Len(queue) > 10

\* Line 360: len(history['poly_history']) >= 10
TenSamples(queue) == Len(queue) >= 10

\* defaultdict(lambda: {...}), lines 72-77: the history of a key
HistoryOf(game_history_dict, game_key) ==
    IF Has(game_history_dict, game_key) THEN game_history_dict[game_key]
    ELSE [diff_history |-> <<>>, poly_history |-> <<>>, kalshi_history |-> <<>>,
          timestamps |-> <<>>]

\* The pair of records that the platforms list for event e at time now: the
\* prices move with the time, on a different period on each platform
Observed(e, now) ==
    LET poly_away == 30 + ((now + e) % 7)
        kalshi_away == 34 + (now % 4)
    IN  << [away_code |-> AwayCode(e), home_code |-> HomeCode(e),
            away_prob |-> poly_away, home_prob |-> 100 - poly_away],
           [away_code |-> AwayCode(e), home_code |-> HomeCode(e),
            away_prob |-> kalshi_away, home_prob |-> 100 - kalshi_away] >>

Abs(x) == IF x < 0 THEN 0 - x ELSE x

\* calculate_comparisons, lines 308-367: the history and the comparisons
\* after the pairs of matched_games from pair i on
RECURSIVE calculate_comparisons(_, _, _, _)
calculate_comparisons(matched_games, game_history_dict, current_time, i) ==
    IF i > Len(matched_games) THEN [game_history_dict |-> game_history_dict, comparisons |-> <<>>]
    ELSE LET poly_game == matched_games[i][1]
             kalshi_game == matched_games[i][2]
             away_diff == Abs(poly_game.away_prob - kalshi_game.away_prob)
             home_diff == Abs(poly_game.home_prob - kalshi_game.home_prob)
             max_diff == IF away_diff >= home_diff THEN away_diff ELSE home_diff
             game_key == poly_game.away_code \o "@" \o poly_game.home_code
             before == HistoryOf(game_history_dict, game_key)
             history ==
                 [ diff_history |-> DequeAppend(before.diff_history, max_diff),
                   poly_history |-> DequeAppend(before.poly_history,
                                        <<poly_game.away_prob, poly_game.home_prob>>),
                   kalshi_history |-> DequeAppend(before.kalshi_history,
                                        <<kalshi_game.away_prob, kalshi_game.home_prob>>),
                   timestamps |-> DequeAppend(before.timestamps, current_time) ]
             \* history[...][-10]
             old_poly == history.poly_history[Len(history.poly_history) - 9]
             old_kalshi == history.kalshi_history[Len(history.kalshi_history) - 9]
             \* round(x, 1) of a whole number is the number
             poly_change ==
                 IF TenSamples(history.poly_history)
                 THEN [away |-> poly_game.away_prob - old_poly[1],
                       home |-> poly_game.home_prob - old_poly[2]]
                 ELSE [away |-> 0, home |-> 0]
             kalshi_change ==
                 IF TenSamples(history.poly_history)
                 THEN [away |-> kalshi_game.away_prob - old_kalshi[1],
                       home |-> kalshi_game.home_prob - old_kalshi[2]]
                 ELSE [away |-> 0, home |-> 0]
             rest == calculate_comparisons(matched_games,
                                           With(game_history_dict, game_key, history),
                                           current_time, i + 1)
         IN  [ game_history_dict |-> rest.game_history_dict,
               comparisons |-> << [game_key |-> game_key, max_diff |-> max_diff,
                                   poly_change |-> poly_change,
                                   kalshi_change |-> kalshi_change] >> \o rest.comparisons ]

MaxCycles == 64

\* One poll: the clock moves on and calculate_comparisons runs on the pairs
\* of the poll.  Event 1 is matched in every poll, event 2 from some poll on
CalculateComparisons ==
    /\ env.now < MaxCycles
    /\ \E matched_games \in { <<Observed(1, env.now + 1)>>,
                              <<Observed(1, env.now + 1), Observed(2, env.now + 1)>> } :
       \E ret \in { calculate_comparisons(matched_games, env.nba_game_history,
                                          env.now + 1, 1) } :
          /\ Has(env.nba_game_history, "NYK@MIA") => Len(matched_games) = 2
          /\ env' = [env EXCEPT !.now = @ + 1, !.nba_game_history = ret.game_history_dict]
          /\ call' = [op |-> "calculate_comparisons", comparisons |-> ret.comparisons]
    /\ UNCHANGED <<data, disk, threads>>

HistoryInit ==
    /\ \E initial_balance \in {150} :
          data = [ balance |-> initial_balance * Usd,
                   initial_balance |-> initial_balance * Usd,
                   bets |-> <<>> ]
    /\ disk = data
    /\ call = [op |-> "load_data"]
    /\ env = With(With(DefaultEnv, "now", 0), "nba_game_history", EmptyDict)
    /\ threads = NoThreads

HistorySpec == HistoryInit /\ [][CalculateComparisons]_vars

\* The polls at which the key of event e has been pushed, oldest first: the
\* last Len polls up to now
PollsOf(history) == [i \in 1..Len(history.timestamps) |-> env.now - Len(history.timestamps) + i]

\* The four queues of a key have one length, at most 60, and hold what was
\* observed at the most recent polls, in the order of the polls
QueuesHoldRecent ==
    \A e \in Events :
        LET game_key == AwayCode(e) \o "@" \o HomeCode(e)
            history == HistoryOf(env.nba_game_history, game_key)
            n == Len(history.timestamps)
        IN  /\ Len(history.diff_history) = n
            /\ Len(history.poly_history) = n
            /\ Len(history.kalshi_history) = n
            /\ n <= 60
            /\ history.timestamps = PollsOf(history)
            /\ \A i \in 1..n :
                  LET seen == Observed(e, PollsOf(history)[i])
                  IN  /\ history.poly_history[i] = <<seen[1].away_prob, seen[1].home_prob>>
                      /\ history.kalshi_history[i] = <<seen[2].away_prob, seen[2].home_prob>>
                      /\ history.diff_history[i] = Abs(seen[1].away_prob - seen[2].away_prob)

\* A push makes a queue one longer, or leaves a full queue at its length
PushEvictsOldest ==
    \A e \in Events :
        LET game_key == AwayCode(e) \o "@" \o HomeCode(e)
            n == Len(HistoryOf(env.nba_game_history, game_key).timestamps)
            after == Len(HistoryOf(env'.nba_game_history, game_key).timestamps)
        IN  after = n \/ after = (IF n < 60 THEN n + 1 ELSE 60)

\* C27: for every event key the four history queues have the same length,
\* at most 60, and hold the most recent observations in arrival order; the
\* 61st push evicts the oldest entry of each queue.
C27_HistoryWindow == []QueuesHoldRecent /\ [][PushEvictsOldest]_vars

\* The key of event 1 has been pushed 61 times and its oldest entry is the
\* second observation
C27_Witness ==
    /\ env.now = 61
    /\ Len(env.nba_game_history["LAL@BOS"].timestamps) = 60
    /\ env.nba_game_history["LAL@BOS"].timestamps[1] = 2

\* The price changes of the last poll: 0 while the key has fewer than 10
\* samples, else the probability now minus the probability of the tenth most
\* recent sample, the current one counted
ChangesAgainstTenthSample ==
    call.op = "calculate_comparisons" =>
        \A c \in DOMAIN call.comparisons :
            LET e == CHOOSE x \in Events : AwayCode(x) \o "@" \o HomeCode(x) = call.comparisons[c].game_key
                samples == Len(env.nba_game_history[call.comparisons[c].game_key].timestamps)
                current == Observed(e, env.now)
                old == Observed(e, env.now - 9)
                poly_change == call.comparisons[c].poly_change
                kalshi_change == call.comparisons[c].kalshi_change
            IN  IF samples < 10
                THEN /\ poly_change = [away |-> 0, home |-> 0]
                     /\ kalshi_change = [away |-> 0, home |-> 0]
                ELSE /\ poly_change.away = current[1].away_prob - old[1].away_prob
                     /\ poly_change.home = current[1].home_prob - old[1].home_prob
                     /\ kalshi_change.away = current[2].away_prob - old[2].away_prob
                     /\ kalshi_change.home = current[2].home_prob - old[2].home_prob

\* C28: the price-change fields of a key are 0 until its history holds 10
\* samples, and from then on each is the current probability minus the
\* probability of the sample ten samples back in the history.
C28_PriceChange == ChangesAgainstTenthSample

\* The history of event 1 holds exactly 10 samples and a change is not 0
C28_Witness ==
    /\ call.op = "calculate_comparisons"
    /\ Len(env.nba_game_history["LAL@BOS"].timestamps) = 10
    /\ call.comparisons[1].poly_change.away # 0
    /\ call.comparisons[1].kalshi_change.away # 0

\* ---------------------------------------------------------------------
\* The payload caches of api.py: nba_cache, nfl_cache, nhl_cache (lines
\* 53-69), _get_cached_data and _set_cache_data (257-267), fetch_nba_data
\* (529-536), fetch_nfl_data (1228-1235), fetch_nhl_data (1276-1283).
\* Times are whole seconds of the wall clock since the start of the process
\* ---------------------------------------------------------------------
cache_duration == 30

CachedSports == {"nba", "nfl", "nhl"}

\* The value None where a payload is expected, written as a record so that it
\* compares with payloads
NoPayload == [success |-> FALSE, sport |-> None, timestamp |-> NoneNum]

\* Lines 53-69: the three module-level caches before the first fetch
EmptyCache == [data |-> NoPayload, timestamp |-> NoneNum, cache_duration |-> cache_duration]

\* Line 259: (now - timestamp).seconds.  The attribute seconds of a
\* timedelta is its seconds component, 0 <= seconds < 86400; the whole days
\* of the difference are in the attribute days, which the code does not read
TimedeltaSeconds(later, earlier) == (later - earlier) % (24 * 3600)

\* Lines 257-262.  A payload is a non-empty dict and a datetime is never
\* false, so both truth tests of line 258 are tests against None
_get_cached_data(cache_obj, now, force_refresh) ==
    IF ~force_refresh /\ cache_obj.data # NoPayload /\ cache_obj.timestamp # NoneNum
    THEN LET elapsed == TimedeltaSeconds(now, cache_obj.timestamp)
         IN  IF elapsed < cache_obj.cache_duration THEN cache_obj.data ELSE NoPayload
    ELSE NoPayload

\* Lines 265-267
_set_cache_data(cache_obj, payload, timestamp) ==
    [cache_obj EXCEPT !.data = payload, !.timestamp = timestamp]

\* Lines 508-526: the payload built at now; of its content the model keeps
\* the sport and the time it was built at ('timestamp': now.isoformat())
_build_payload(sport, now) == [success |-> TRUE, sport |-> sport, timestamp |-> now]

\* Lines 529-536 (nfl 1228-1235, nhl 1276-1283): the payload returned and
\* the cache after the call
fetch_data(sport, cache_obj, now, force_refresh) ==
    LET cached == _get_cached_data(cache_obj, now, force_refresh)
    IN  IF cached # NoPayload
        THEN [result |-> cached, cache |-> cache_obj]
        ELSE LET result == _build_payload(sport, now)
             IN  [result |-> result, cache |-> _set_cache_data(cache_obj, result, now)]

\* The clock is moved at most MaxTicks times
MaxTicks == 4

\* Time passes between two requests: seconds, or a day without a request
\* for the sport
Tick ==
    /\ env.ticks < MaxTicks
    /\ \E seconds \in {10, 20, 24 * 3600} :
          env' = [env EXCEPT !.now = @ + seconds, !.ticks = @ + 1]
    /\ UNCHANGED <<data, disk, call, threads>>

\* A request for the payload of one sport, datetime.now() being env.now
Fetch ==
    /\ \E sport \in CachedSports, force_refresh \in BOOLEAN :
       \E ret \in { fetch_data(sport, env.caches[sport], env.now, force_refresh) } :
          /\ env' = [env EXCEPT !.caches[sport] = ret.cache]
          /\ call' = [op |-> "fetch_data", sport |-> sport, force_refresh |-> force_refresh,
                      now |-> env.now, result |-> ret.result]
    /\ UNCHANGED <<data, disk, threads>>

CacheInit ==
    /\ \E initial_balance \in {150} :
          data = [ balance |-> initial_balance * Usd,
                   initial_balance |-> initial_balance * Usd,
                   bets |-> <<>> ]
    /\ disk = data
    /\ call = [op |-> "load_data"]
    /\ env = With(With(With(DefaultEnv, "now", 0), "ticks", 0),
                  "caches", [sport \in CachedSports |-> EmptyCache])
    /\ threads = NoThreads

CacheNext == Tick \/ Fetch

CacheSpec == CacheInit /\ [][CacheNext]_vars

\* The payload a fetch returned was built less than cache_duration seconds
\* before the fetch
ReturnedPayloadIsFresh ==
    call.op = "fetch_data" => call.now - call.result.timestamp < cache_duration

\* A fetch with a cache that is empty, forced or cache_duration seconds old
\* rebuilds the payload and overwrites the cache; any other fetch returns the
\* cached payload and leaves the cache as it is
RebuiltWhenDue ==
    (call'.op = "fetch_data" /\ env'.now = env.now /\ call'.now = env.now) =>
        LET cache_obj == env.caches[call'.sport]
            due == \/ call'.force_refresh
                   \/ cache_obj.data = NoPayload
                   \/ env.now - cache_obj.timestamp >= cache_duration
        IN  IF due
            THEN /\ call'.result = _build_payload(call'.sport, env.now)
                 /\ env'.caches[call'.sport].data = call'.result
                 /\ env'.caches[call'.sport].timestamp = env.now
            ELSE /\ call'.result = cache_obj.data
                 /\ env'.caches = env.caches

\* C29: fetch_nba_data, fetch_nfl_data and fetch_nhl_data never return a
\* cached payload that is cache_duration (30 s) or more old: a fetch with a
\* cache that is empty, forced or at least cache_duration seconds old rebuilds
\* the payload and overwrites the cache, any other fetch returns the cached
\* payload and leaves the cache unchanged
C29_NeverStale == []ReturnedPayloadIsFresh /\ [][RebuiltWhenDue]_vars

-----------------------------------------------------------------------------
(* The two calculations of execute_arb side by side: the legacy calculation
   of src/paper_trading.py, lines 221-363, and the pre-computed path, lines
   101-219, fed by _calculate_risk_free_details of src/api.py, lines 117-220 *)

\* The raw prices of a pair of records, in cents
PathPrices == {0, 30, 34, 64, 68, 70}

\* The settings and ledgers explored: the shipped stake of 100 contracts and
\* a stake of 300, a minimum ROI of 0, of 1 percent and of -1 percent, and
\* balances (in dollars) that pay for a trade, nearly, or not at all
PathSettings ==
    { [DefaultEnv EXCEPT !.PAPER_TRADING_BET_AMOUNT = stake, !.PAPER_TRADING_MIN_ROI = min_roi] :
          stake \in {100, 300}, min_roi \in {0 - 10000, 0, 10000} }

PathBalances == {50, 292, 400}

\* A game of event 1 arrives with four raw prices
PathInit ==
    /\ env \in PathSettings
    /\ \E initial_balance \in PathBalances :
          data = [ balance |-> initial_balance * Usd,
                   initial_balance |-> initial_balance * Usd,
                   bets |-> <<>> ]
    /\ disk = data
    /\ threads = NoThreads
    /\ \E pa \in PathPrices, ph \in PathPrices, ka \in PathPrices, kh \in PathPrices :
          call = [op |-> "feed", prices |-> <<pa, ph, ka, kh>>]

\* execute_arb on the ledger as it is, once for the game without an
\* opportunity (the legacy calculation) and once for the game with the
\* calculator's opportunity attached, as fetch_all_sports_data hands it over
BothPaths ==
    /\ call.op = "feed"
    /\ \E game \in { Game(1, call.prices) } :
          call' = [ op |-> "execute_arb", prices |-> call.prices,
                    details |-> game.risk_free_arb,
                    fallback |-> execute_arb(Without(game, {"riskFreeArb", "risk_free_arb"}), data),
                    precomputed |-> execute_arb(game, data) ]
    /\ UNCHANGED <<data, disk, env, threads>>

PathSpec == PathInit /\ [][BothPaths]_vars

\* The reasons with which the legacy calculation turns the prices down
PriceCheckReasons ==
    { "Missing platform data for arbitrage", "Missing odds", "Invalid odds (zero price)",
      "Invalid arbitrage: Both legs on same platform",
      "No risk-free arb opportunity (total cost >= 100c)" }

\* The legacy calculation passes its price checks exactly when the calculator
\* returns an opportunity
PriceChecksAgree ==
    call.op = "execute_arb" =>
        ((call.fallback.reason \notin PriceCheckReasons) <=> ~NotDict(call.details))

\* Where both paths trade, the two bets have the same platforms and the same
\* total cost per unit
TradesAgree ==
    (call.op = "execute_arb" /\ call.fallback.ok /\ call.precomputed.ok) =>
        /\ call.fallback.trade.legs[1].platform = call.precomputed.trade.legs[1].platform
        /\ call.fallback.trade.legs[2].platform = call.precomputed.trade.legs[2].platform
        /\ call.fallback.trade.legs[1].platform = call.details.best_away_platform
        /\ call.fallback.trade.legs[2].platform = call.details.best_home_platform
        /\ call.fallback.trade.total_cost_per_unit = call.precomputed.trade.total_cost_per_unit
        /\ call.fallback.trade.total_cost_per_unit = call.details.total_cost

\* Both paths turn the same games down for their ROI
ThresholdsAgree ==
    call.op = "execute_arb" =>
        ((call.fallback.reason = "ROI below threshold")
            <=> (call.precomputed.reason = "ROI below threshold"))

\* A game is traded on the one path exactly when it is traded on the other
TradedOnBothOrNeither ==
    call.op = "execute_arb" => (call.fallback.ok <=> call.precomputed.ok)

\* C30: for the same four raw prices the legacy calculation of execute_arb
\* and _calculate_risk_free_details agree: the price checks pass exactly when
\* the calculator returns an opportunity, the platforms, the total cost per
\* unit and the ROI threshold are the same, and so a game is traded on the
\* legacy path exactly when it is traded with the calculator's opportunity
C30_PathsAgree ==
    PriceChecksAgree /\ TradesAgree /\ ThresholdsAgree /\ TradedOnBothOrNeither

====
